---- MODULE Spec2Model ----
(***************************************************************************)
(* State-machine model of the distr artifact registry: the version store   *)
(* (Artifact / ArtifactVersion / ArtifactVersionPart), the manifest push   *)
(* and tag-delete handlers, the license checks, the pull audit log and the *)
(* listings (versions with sizes, tags, referrers).                        *)
(*                                                                         *)
(* A request is one atomic action: the writing handlers run their store    *)
(* statements inside db.RunTx, and the specifications run requests one     *)
(* after the other. Spec looks at pushes and deletes, SpecAuthz at the     *)
(* license checks, SpecPull at pulls and sizes, SpecList at the listings.  *)
(***************************************************************************)
EXTENDS Integers, FiniteSets, Sequences, TLC

\* ------------------------------------------------------------------ bounds

\* Largest ArtifactVersion id handed out (ids are fresh, never reused).
MaxVersionId == 4
\* Largest number of ArtifactLicense rows.
MaxLicenses == 1
\* Largest value of the clock now().
MaxTime == 1
\* Largest number of ArtifactVersionPull rows.
MaxPulls == 2
\* Largest ArtifactVersion id handed out to the concurrent requests.
MaxTxVersionId == 6
\* Largest number of DeploymentRevisionStatus rows and the latest time they
\* are looked at.
MaxStatuses == 3
MaxStatusTime == 2
\* Licenses in the stores with nested manifests.
MaxPartsLicenses == 2
\* Secrets generated by setup requests and batches of recovery codes
\* created for the user.
MaxSetups == 2
MaxBatches == 3
\* Logins the agent client performs.
MaxLogins == 3

\* ------------------------------------------------------------------ inputs

Orgs == {"o1", "o2"}
ArtifactNames == {"a1", "a2"}
\* Repositories requests are made against (org slug / artifact name).
Repos == {<<"o1", "a1">>, <<"o1", "a2">>}
Customers == {"c1", "c2", "c3"}
\* The vendor organization a customer organization belongs to.
CustomerOrg(c) == IF c = "c3" THEN "o2" ELSE "o1"

Tags == {"t1", "t2"}
\* Manifest digests (digest.FromBytes of the pushed body).
Digests == {"sha256:d1", "sha256:d2"}
\* Blob digests that are no manifest digest.
Blobs == {"sha256:b1", "sha256:b2"}
References == Tags \cup Digests
\* The digest of an index whose instance is the index d2; only the stores
\* SpecParts starts from hold it.
OuterIndex == "sha256:d3"

\* The config/layer/instance digests handlePut extracts from the body that
\* hashes to digest d: d1 is an image with one layer, d2 references d1 (a
\* nested manifest) and a blob of its own.
ManifestBlobs(d) ==
  IF d = "sha256:d1" THEN {"sha256:b1"} ELSE {"sha256:d1", "sha256:b2"}

\* SQL NULL of a text column, of an integer column (a version id, an expiry,
\* a tag limit) and of an artifact reference.
NULL == "NULL"
NullInt == -1
NoArtifact == <<NULL, NULL>>
OK == "ok"

\* ------------------------------------------------------------------ state

VARIABLES
  artifacts,   \* Artifact rows: <<org, name>>
  versions,    \* ArtifactVersion rows: [id, art, name, digest]
  parts,       \* ArtifactVersionPart rows: [vid, blob]
  nextId,      \* next fresh ArtifactVersion id
  licenses,    \* ArtifactLicense joined with ArtifactLicense_Artifact
  now,         \* the clock read by now()
  mutableTags, \* orgs with FeatureArtifactVersionMutable
  tagLimit,    \* Organization.artifact_tag_limit, NULL when unset
  pulls,       \* ArtifactVersionPull rows, oldest first: [vid, who, at]
  last,        \* the last request, its response and the store before it
  tx,          \* the open transaction of each concurrent request
  statuses,    \* DeploymentRevisionStatus rows: [id, rev, at]
  recovery,    \* a recovery code on its way through format and normalize
  walk,        \* a recursive query over the parts on its way: its working table
  account,     \* one UserAccount row with its UserAccount_MFARecoveryCode rows
  mfa,         \* the MFA settings requests in flight, one per process
  client       \* the agent client's token fields and its goroutines

\* The state outside the registry's requests run one at a time.
\* The user account side and the agent client.
accounts == <<account, mfa, client>>

elsewhere == <<tx, statuses, recovery, walk, accounts>>

vars == <<artifacts, versions, parts, nextId, licenses, now, mutableTags,
          tagLimit, pulls, last, elsewhere>>

\* The rows a transaction reads and writes.
Store == [artifacts |-> artifacts, versions |-> versions, parts |-> parts,
          nextId |-> nextId]

\* ------------------------------------------------------------------ helpers

\* name LIKE '%:%' / strings.Contains(name, ":"): of the names of this model,
\* exactly the digests contain a colon.
isDigestName(name) == name \in Digests \cup Blobs \cup {OuterIndex}

\* digest.Parse(reference) succeeds.
digestParse(reference) == reference \in Digests \cup Blobs \cup {OuterIndex}

\* db.RunTx(fn): fn's writes are kept when fn returns nil and undone when it
\* returns an error. r is fn's outcome [db, err], db the store before it.
RunTx(db, r) == IF r.err = OK THEN r ELSE [db |-> db, err |-> r.err]

Result(db, err) == [db |-> db, err |-> err]

\* Injected storage failures of one push: none, the INSERT of the tag's
\* ArtifactVersion row fails, or the INSERT of its first part fails.
Faults == {"none", "version", "part"}

\* ------------------------------------------------------------------ store

\* GetArtifactByName: the artifact row of (org slug, name), if any.
GetArtifactByName(db, org, name) ==
  {a \in db.artifacts : a[1] = org /\ a[2] = name}

\* GetOrCreateArtifact: insert-or-fetch of the artifact row.
GetOrCreateArtifact(db, org, name) ==
  IF \E a \in db.artifacts : a[2] = name /\ a[1] = org
    THEN db
    ELSE [db EXCEPT !.artifacts = @ \cup {<<org, name>>}]

\* GetArtifactVersion: the version rows of (org slug, artifact name) whose
\* name is the reference (none: ErrNotFound).
GetArtifactVersion(db, org, name, reference) ==
  {v \in db.versions :
     /\ v.art \in db.artifacts
     /\ v.art[1] = org
     /\ v.art[2] = name
     /\ v.name = reference}

\* GetArtifactVersionByTag: the version rows of the artifact named tagName.
GetArtifactVersionByTag(db, art, tagName) ==
  {v \in db.versions : v.art = art /\ v.name = tagName}

\* GetArtifactVersionsByDigest: the version rows of the artifact with that
\* manifest digest.
GetArtifactVersionsByDigest(db, art, digest) ==
  {v \in db.versions : v.art = art /\ v.digest = digest}

\* The default limit of the environment (ARTIFACT_TAGS_DEFAULT_LIMIT_PER_ORG)
\* and the limit that stands for "none".
ArtifactTagsDefaultLimitPerOrg == 0
MaxInt32 == 2147483647

\* EnsureArtifactTagLimitForInsert reading no limit of the organization.
EnsureArtifactTagLimitForInsert_Unlimited(db, org) ==
  LET rows == {v \in db.versions :
                 v.art \in db.artifacts /\ v.art[1] = org /\ ~isDigestName(v.name)}
      limit == MaxInt32
  IN  IF rows = {} THEN TRUE ELSE Cardinality(rows) + 1 < limit

\* EnsureArtifactTagLimitForInsert with <= for <.
EnsureArtifactTagLimitForInsert_AtMost(db, org) ==
  LET rows == {v \in db.versions :
                 v.art \in db.artifacts /\ v.art[1] = org /\ ~isDigestName(v.name)}
      limit == IF tagLimit[org] # NullInt THEN tagLimit[org]
               ELSE IF ArtifactTagsDefaultLimitPerOrg > 0
                      THEN ArtifactTagsDefaultLimitPerOrg
                      ELSE MaxInt32
  IN  IF rows = {} THEN TRUE ELSE Cardinality(rows) + 1 <= limit

\* EnsureArtifactTagLimitForInsert: count(av.name) + 1 < limit over the
\* organization's version rows whose name has no colon; no such row: true.
EnsureArtifactTagLimitForInsert(db, org) ==
  LET rows == {v \in db.versions :
                 v.art \in db.artifacts /\ v.art[1] = org /\ ~isDigestName(v.name)}
      limit == IF tagLimit[org] # NullInt THEN tagLimit[org]
               ELSE IF ArtifactTagsDefaultLimitPerOrg > 0
                      THEN ArtifactTagsDefaultLimitPerOrg
                      ELSE MaxInt32
  IN  IF rows = {} THEN TRUE ELSE Cardinality(rows) + 1 < limit

\* CreateArtifactVersion: INSERT ... RETURNING *, the row gets a fresh id; a
\* second row with the same (artifact, name) is a unique violation.
CreateArtifactVersion(db, art, name, digest) ==
  IF \E v \in db.versions : v.art = art /\ v.name = name
    THEN Result(db, "ErrConflict")
    ELSE Result([db EXCEPT
                   !.versions = @ \cup {[id |-> db.nextId, art |-> art,
                                         name |-> name, digest |-> digest]},
                   !.nextId = @ + 1],
                OK)

\* CreateArtifactVersionPart: INSERT ... ON CONFLICT DO UPDATE of one part.
CreateArtifactVersionPart(db, vid, blob) ==
  [db EXCEPT !.parts = @ \cup {[vid |-> vid, blob |-> blob]}]

\* DeleteArtifactVersion deleting the rows that share the tag's digest too.
DeleteArtifactVersion_WithSiblings(db, art, tagName) ==
  LET tagged == {v \in db.versions :
                   v.art = art /\ v.name = tagName /\ ~isDigestName(v.name)}
      rows == {v \in db.versions :
                 v.art = art /\ \E t \in tagged : v.digest = t.digest}
      ids == {v.id : v \in rows}
  IN  IF \E l \in licenses : l.ver \in ids THEN Result(db, "ErrConflict")
      ELSE IF rows = {} THEN Result(db, "ErrNotFound")
      ELSE Result([db EXCEPT
                     !.versions = @ \ rows,
                     !.parts = {p \in @ : p.vid \notin ids}],
                  OK)

\* DeleteArtifactVersion: DELETE the row of the artifact with that name, if
\* the name has no colon. A row still referenced by a license is a foreign
\* key violation (ErrConflict), no row deleted is ErrNotFound. The parts of
\* the deleted row go with it.
DeleteArtifactVersion(db, art, tagName) ==
  LET rows == {v \in db.versions :
                 v.art = art /\ v.name = tagName /\ ~isDigestName(v.name)}
      ids == {v.id : v \in rows}
  IN  IF \E l \in licenses : l.ver \in ids THEN Result(db, "ErrConflict")
      ELSE IF rows = {} THEN Result(db, "ErrNotFound")
      ELSE Result([db EXCEPT
                     !.versions = @ \ rows,
                     !.parts = {p \in @ : p.vid \notin ids}],
                  OK)

\* ------------------------------------------------------------------ push

\* PutInsert that stores the parts of the row named by the digest only.
PutInsert_PartsOfDigestRow(db, art, reference, digest, fault) ==
  LET c == CreateArtifactVersion(db, art, reference, digest)
      id == db.nextId
      blobs == IF reference = digest THEN ManifestBlobs(digest) ELSE {}
      withParts == [c.db EXCEPT
                      !.parts = @ \cup {[vid |-> id, blob |-> b] : b \in blobs}]
  IN  IF fault = "version" THEN Result(db, "ErrInternal")
      ELSE IF c.err # OK THEN c
      ELSE IF fault = "part" THEN Result(c.db, "ErrInternal")
      ELSE Result(withParts, OK)

\* The statements of handler.Put after the lookup of the existing row:
\* CreateArtifactVersion, then CreateArtifactVersionPart for every blob.
PutInsert(db, art, reference, digest, fault) ==
  LET c == CreateArtifactVersion(db, art, reference, digest)
      id == db.nextId
      blobs == ManifestBlobs(digest)
      withParts == [c.db EXCEPT
                      !.parts = @ \cup {[vid |-> id, blob |-> b] : b \in blobs}]
  IN  IF fault = "version" THEN Result(db, "ErrInternal")
      ELSE IF c.err # OK THEN c
      ELSE IF fault = "part" THEN Result(c.db, "ErrInternal")
      ELSE Result(withParts, OK)

\* handler.Put, the function run inside its db.RunTx: store one version row
\* named reference for the manifest with that digest.
PutTx(db, org, name, reference, digest, fault) ==
  LET db1 == GetOrCreateArtifact(db, org, name)
      art == <<org, name>>
      found == GetArtifactVersion(db1, org, name, reference)
  IN  IF found = {} THEN
        IF ~EnsureArtifactTagLimitForInsert(db1, org)
          THEN Result(db1, "ErrQuotaExceeded")
          ELSE PutInsert(db1, art, reference, digest, fault)
      ELSE
        LET existingVersion == CHOOSE v \in found : TRUE
        IN  IF existingVersion.digest = reference THEN Result(db1, OK)
            ELSE IF org \notin mutableTags
              THEN Result(db1, "ErrTagAlreadyExists")
            ELSE
              LET d == DeleteArtifactVersion(db1, existingVersion.art,
                                             existingVersion.name)
              IN  IF d.err # OK THEN d
                  ELSE PutInsert(d.db, art, reference, digest, fault)

\* handler.Put.
Put(db, org, name, reference, digest, fault) ==
  RunTx(db, PutTx(db, org, name, reference, digest, fault))

\* The error handlePut maps the combined error of its two Puts to.
PutResponse(e1, e2) ==
  IF e1 = "ErrQuotaExceeded" \/ e2 = "ErrQuotaExceeded"
    THEN "regErrDeniedQuotaExceeded"
  ELSE IF e1 = "ErrTagAlreadyExists" \/ e2 = "ErrTagAlreadyExists"
    THEN "regErrTagAlreadyExists"
  ELSE IF e1 # OK \/ e2 # OK THEN "regErrInternal"
  ELSE "Created"

\* handlePut registering the manifest under the target only.
handlePut_TargetOnly(db, org, name, target, digest, fault) ==
  LET p2 == Put(db, org, name, target, digest, fault)
      res == PutResponse(OK, p2.err)
  IN  RunTx(db, Result(p2.db, IF res = "Created" THEN OK ELSE res))

\* handlePut without the transaction around its two Puts.
handlePut_NoOuterTx(db, org, name, target, digest, fault) ==
  LET p1 == Put(db, org, name, digest, digest, "none")
      p2 == Put(p1.db, org, name, target, digest, fault)
      res == PutResponse(p1.err, p2.err)
  IN  Result(p2.db, IF res = "Created" THEN OK ELSE res)

\* manifests.handlePut: one transaction that registers the manifest under
\* its digest and under the target; both Puts run, their errors are combined.
handlePut(db, org, name, target, digest, fault) ==
  LET p1 == Put(db, org, name, digest, digest, "none")
      p2 == Put(p1.db, org, name, target, digest, fault)
      res == PutResponse(p1.err, p2.err)
  IN  RunTx(db, Result(p2.db, IF res = "Created" THEN OK ELSE res))

\* ------------------------------------------------------------------ delete

\* checkAllVersionsLicense: a license row of the artifact without a version.
checkAllVersionsLicense(art) ==
  IF \E l \in licenses : l.art = art /\ l.ver = NullInt
    THEN "ErrBadRequest" ELSE OK

\* CheckArtifactVersionDeletionForLicenses counting the tag being deleted
\* among the other tags of the digest.
CheckArtifactVersionDeletionForLicenses_CountsItself(art, version, versionsWithSameDigest) ==
  LET sha == {v \in versionsWithSameDigest : v.name = v.digest}
  IN  IF sha = {} THEN checkAllVersionsLicense(art)
      ELSE
        LET shaVersion == CHOOSE v \in sha : TRUE
            isReferencedCount ==
              Cardinality({l \in licenses : l.ver = shaVersion.id})
            otherNonSHATags ==
              Cardinality({v \in versionsWithSameDigest : ~isDigestName(v.name)})
        IN  IF isReferencedCount > 0 /\ otherNonSHATags = 0
              THEN "ErrBadRequest"
              ELSE checkAllVersionsLicense(art)

\* CheckArtifactVersionDeletionForLicenses.
CheckArtifactVersionDeletionForLicenses(art, version, versionsWithSameDigest) ==
  LET sha == {v \in versionsWithSameDigest : v.name = v.digest}
  IN  IF sha = {} THEN checkAllVersionsLicense(art)
      ELSE
        LET shaVersion == CHOOSE v \in sha : TRUE
            isReferencedCount ==
              Cardinality({l \in licenses : l.ver = shaVersion.id})
            otherNonSHATags ==
              Cardinality({v \in versionsWithSameDigest :
                             v.name # version.name /\ ~isDigestName(v.name)})
        IN  IF isReferencedCount > 0 /\ otherNonSHATags = 0
              THEN "ErrBadRequest"
              ELSE checkAllVersionsLicense(art)

\* IsLastTagOfArtifact: the artifact has exactly one row without a colon.
IsLastTagOfArtifact(db, art) ==
  Cardinality({v \in db.versions : v.art = art /\ ~isDigestName(v.name)}) = 1

\* handler.Delete, the function run inside its db.RunTx.
DeleteTx(db, art, reference) ==
  LET found == GetArtifactVersionByTag(db, art, reference)
  IN  IF found = {} THEN Result(db, "ErrManifestUnknown")
      ELSE
        LET version == CHOOSE v \in found : TRUE
            same == GetArtifactVersionsByDigest(db, art, version.digest)
            lic == CheckArtifactVersionDeletionForLicenses(art, version, same)
        IN  IF lic # OK THEN Result(db, lic)
            ELSE IF IsLastTagOfArtifact(db, art) THEN Result(db, "ErrConflict")
            ELSE DeleteArtifactVersion(db, art, reference)

\* handler.Delete.
Delete(db, org, name, reference) ==
  IF digestParse(reference) THEN Result(db, "ErrBadRequest")
  ELSE IF GetArtifactByName(db, org, name) = {}
    THEN Result(db, "ErrNameUnknown")
  ELSE RunTx(db, DeleteTx(db, <<org, name>>, reference))

\* manifests.handleDelete: the response for handler.Delete's error.
handleDelete(db, org, name, target) ==
  LET r == Delete(db, org, name, target)
      res == CASE r.err = OK -> "Accepted"
               [] r.err = "ErrNameUnknown" -> "regErrNameUnknown"
               [] r.err = "ErrManifestUnknown" -> "regErrManifestUnknown"
               [] r.err = "ErrConflict" -> "regErrConflict"
               [] r.err = "ErrBadRequest" -> "regErrBadRequest"
               [] OTHER -> "regErrInternal"
  IN  Result(r.db, res)

\* ------------------------------------------------------------------ licenses

\* The expiry test with >= for >.
NotExpired_Inclusive(l) == l.exp = NullInt \/ l.exp >= now

\* al.expires_at IS NULL OR al.expires_at > now()
NotExpired(l) == l.exp = NullInt \/ l.exp > now

\* HasAnyArtifactLicense without the filter on the organization.
HasAnyArtifactLicense_AnyOrg(orgID) == licenses # {}

\* HasAnyArtifactLicense: the organization has a license row.
HasAnyArtifactLicense(orgID) == \E l \in licenses : l.org = orgID

\* The recursive term following parts inside one artifact only.
AggregateStep_SameArtifact(W) ==
  {av \in versions :
     \E avp \in parts :
        avp.vid = av.id /\ \E agg \in W : avp.blob = agg.digest /\ av.art = agg.art}

\* The recursive term of ArtifactVersionAggregate: the version rows with a
\* part whose blob digest is the manifest digest of a row of W.
AggregateStep(W) ==
  {av \in versions :
     \E avp \in parts : avp.vid = av.id /\ \E agg \in W : avp.blob = agg.digest}

\* WITH RECURSIVE ArtifactVersionAggregate ... UNION ALL: the rows of the
\* working table W and of every working table derived from it.
RECURSIVE ArtifactVersionAggregate(_)
ArtifactVersionAggregate(W) ==
  IF W = {} THEN {} ELSE W \cup ArtifactVersionAggregate(AggregateStep(W))

\* The final SELECT exists(...) joining a license of the customer whatever
\* artifact it names.
LicenseExists_AnyArtifact(agg, customerOrganizationID) ==
  \E av \in agg : \E l \in licenses :
     /\ l.art # NoArtifact
     /\ (l.ver = NullInt \/ l.ver = av.id)
     /\ l.cust = customerOrganizationID
     /\ NotExpired(l)

\* The final SELECT exists(...) of both license checks: a row of the
\* aggregate joined with a license row of its artifact (for all versions or
\* for that version) of the customer that has not expired.
LicenseExists(agg, customerOrganizationID) ==
  \E av \in agg : \E l \in licenses :
     /\ l.art = av.art
     /\ (l.ver = NullInt \/ l.ver = av.id)
     /\ l.cust = customerOrganizationID
     /\ NotExpired(l)

\* CheckLicenseForArtifact without the self-join on the manifest digest: the
\* aggregate starts from the rows the reference names only.
CheckLicenseForArtifact_NoAlias(orgName, name, reference, customerOrganizationID, orgID) ==
  IF ~HasAnyArtifactLicense(orgID) THEN OK
  ELSE
    LET base == {av \in versions :
                   /\ av.art \in artifacts
                   /\ av.art = <<orgName, name>>
                   /\ (av.name = reference \/ av.digest = reference)}
    IN  IF LicenseExists(ArtifactVersionAggregate(base), customerOrganizationID)
          THEN OK ELSE "ErrForbidden"

\* CheckLicenseForArtifact: OK or ErrForbidden.
CheckLicenseForArtifact(orgName, name, reference, customerOrganizationID, orgID) ==
  IF ~HasAnyArtifactLicense(orgID) THEN OK
  ELSE
    LET base == {av \in versions :
                   /\ av.art \in artifacts
                   /\ av.art = <<orgName, name>>
                   /\ \E avx \in versions :
                        /\ avx.art = av.art
                        /\ avx.digest = av.digest
                        /\ (avx.name = reference \/ avx.digest = reference)}
    IN  IF LicenseExists(ArtifactVersionAggregate(base), customerOrganizationID)
          THEN OK ELSE "ErrForbidden"

\* CheckLicenseForArtifactBlob: OK or ErrForbidden.
CheckLicenseForArtifactBlob(digest, customerOrganizationID, orgID) ==
  IF ~HasAnyArtifactLicense(orgID) THEN OK
  ELSE
    LET base == {av \in versions :
                   \E avp \in parts : avp.vid = av.id /\ avp.blob = digest}
    IN  IF LicenseExists(ArtifactVersionAggregate(base), customerOrganizationID)
          THEN OK ELSE "ErrForbidden"

\* ------------------------------------------------------------------ reads

\* The size in bytes a descriptor gives for a blob; for a manifest digest it
\* is the size of the manifest body.
BlobSize(b) ==
  CASE b = "sha256:b1" -> 1
    [] b = "sha256:b2" -> 2
    [] b = "sha256:d1" -> 4
    [] OTHER -> 8

\* The digest of the "subject" descriptor in the body that hashes to d: d2
\* names d1 as its subject, d1 has no subject.
ManifestSubject(d) == IF d = "sha256:d2" THEN "sha256:d1" ELSE NULL

\* Tag names in the order of ORDER BY avt.name.
TagOrder == <<"t1", "t2">>

\* The callers of the read operations: a user of the vendor organization
\* (customerOrgID nil) or customer organization c1.
Principals == {NULL, "c1"}

InSet(S) == [x \in Tags |-> x \in S]

\* The elements of a set of tag names as a sequence in name order.
SortedTags(S) == SelectSeq(TagOrder, LAMBDA t : InSet(S)[t])

\* The pull rows of a version row.
PullsOf(vid) == {i \in DOMAIN pulls : pulls[i].vid = vid}

\* The recursive term of the size aggregate: for the rows of W, the parts
\* (related_av_id, artifact_blob_digest) of every version row whose manifest
\* digest is the blob digest of a row of W.
SizeAggregateStep(W) ==
  {<<avp.vid, avp.blob>> :
     avp \in {q \in parts :
                \E w \in W, av1 \in versions :
                   av1.digest = w[2] /\ av1.id = q.vid}}

\* WITH RECURSIVE aggregate ... SELECT DISTINCT *: the distinct rows
\* (related_av_id, artifact_blob_digest) reached from the working table W.
RECURSIVE SizeAggregate(_)
SizeAggregate(W) ==
  IF W = {} THEN {} ELSE W \cup SizeAggregate(SizeAggregateStep(W))

\* sum(avp.artifact_blob_size) over the aggregate rows joined with the pull
\* rows of their related version: a row with k > 0 matching pull rows is in
\* the join k times, a row with none once (LEFT JOIN).
RECURSIVE SumBlobSize(_, _)
SumBlobSize(rows, isVendorUser) ==
  IF rows = {} THEN 0
  ELSE LET r == CHOOSE x \in rows : TRUE
           k == Cardinality(PullsOf(r[1]))
           times == IF isVendorUser /\ k > 0 THEN k ELSE 1
       IN  BlobSize(r[2]) * times + SumBlobSize(rows \ {r}, isVendorUser)

\* The size column of GetVersionsForArtifact for version row av.
VersionSize(av, isVendorUser) ==
  BlobSize(av.digest)
    + SumBlobSize(SizeAggregate({<<p.vid, p.blob>> : p \in {q \in parts : q.vid = av.id}}),
                  isVendorUser)

\* The license condition of GetVersionsForArtifact taking the customer's
\* license for all versions of any artifact.
VersionLicensed_AnyArtifact(av, art, customerOrgID) ==
  \/ ~HasAnyArtifactLicense(art[1])
  \/ \E l \in licenses :
       l.art # NoArtifact /\ l.ver = NullInt /\ l.cust = customerOrgID /\ NotExpired(l)
  \/ \E avagg \in ArtifactVersionAggregate(
                    {avx \in versions : avx.digest = av.digest /\ avx.art = art}) :
       \E l \in licenses :
          /\ l.ver = avagg.id
          /\ l.cust = customerOrgID
          /\ NotExpired(l)
          /\ l.art = art

\* The license condition of GetVersionsForArtifact for version row av of
\* the artifact and the customer organization.
VersionLicensed(av, art, customerOrgID) ==
  \/ ~HasAnyArtifactLicense(art[1])
  \/ \E l \in licenses :
       l.art = art /\ l.ver = NullInt /\ l.cust = customerOrgID /\ NotExpired(l)
  \/ \E avagg \in ArtifactVersionAggregate(
                    {avx \in versions : avx.digest = av.digest /\ avx.art = art}) :
       \E l \in licenses :
          /\ l.ver = avagg.id
          /\ l.cust = customerOrgID
          /\ NotExpired(l)
          /\ l.art = art

\* A set of version rows as a sequence, ORDER BY created_at DESC (rows are
\* created in the order of their ids).
RECURSIVE OrderByCreatedDesc(_)
OrderByCreatedDesc(S) ==
  IF S = {} THEN <<>>
  ELSE LET newest == CHOOSE x \in S : \A y \in S : y.id <= x.id
       IN  <<newest>> \o OrderByCreatedDesc(S \ {newest})

\* GetVersionsForArtifact that lists every row named by a digest.
GetVersionsForArtifact_Untagged(art, customerOrgID) ==
  LET isVendorUser == customerOrgID = NULL
      rows == {av \in versions :
                 /\ av.art = art
                 /\ isDigestName(av.name)
                 /\ isVendorUser \/ VersionLicensed(av, art, customerOrgID)}
      ordered == OrderByCreatedDesc(rows)
  IN  [i \in DOMAIN ordered |->
         [id |-> ordered[i].id,
          digest |-> ordered[i].digest,
          tags |-> SortedTags({avt.name : avt \in
                      {x \in versions : /\ x.digest = ordered[i].digest
                                        /\ x.art = art
                                        /\ ~isDigestName(x.name)}}),
          size |-> VersionSize(ordered[i], isVendorUser)]]

\* GetVersionsForArtifact: the rows of the artifact named by a digest that
\* the caller may see and that have a tag, newest first, each with its tags
\* in name order and its aggregated size.
GetVersionsForArtifact(art, customerOrgID) ==
  LET isVendorUser == customerOrgID = NULL
      rows == {av \in versions :
                 /\ av.art = art
                 /\ isDigestName(av.name)
                 /\ isVendorUser \/ VersionLicensed(av, art, customerOrgID)
                 /\ \E avt \in versions :
                      /\ avt.digest = av.digest
                      /\ avt.art = av.art
                      /\ ~isDigestName(avt.name)}
      ordered == OrderByCreatedDesc(rows)
  IN  [i \in DOMAIN ordered |->
         [id |-> ordered[i].id,
          digest |-> ordered[i].digest,
          tags |-> SortedTags({avt.name : avt \in
                      {x \in versions : /\ x.digest = ordered[i].digest
                                        /\ x.art = art
                                        /\ ~isDigestName(x.name)}}),
          size |-> VersionSize(ordered[i], isVendorUser)]]

\* AuthorizeReference of the authorizer for a read: a user of the vendor
\* organization may read; a customer organization needs the license check.
AuthorizeReference(customerOrgID, org, name, reference) ==
  IF customerOrgID = NULL THEN OK
  ELSE IF CheckLicenseForArtifact(org, name, reference, customerOrgID, org) = OK
    THEN OK
    ELSE "ErrAccessDenied"

\* handler.Get: the manifest of the row named reference, or an error.
Get(org, name, reference) ==
  LET found == GetArtifactVersion(Store, org, name, reference)
  IN  IF found = {}
        THEN [err |-> "ErrNameUnknown", id |-> NullInt, digest |-> NULL]
        ELSE LET av == CHOOSE v \in found : TRUE
             IN  [err |-> OK, id |-> av.id, digest |-> av.digest]

\* manifests.handleGet and manifests.handleHead up to the audit: the
\* response for handler.Get's outcome.
handleGet(org, name, target) ==
  LET m == Get(org, name, target)
  IN  CASE m.err = "ErrNameUnknown" -> "regErrNameUnknown"
        [] m.err = "ErrManifestUnknown" -> "regErrManifestUnknown"
        [] m.err # OK -> "regErrInternal"
        [] OTHER -> "StatusOK"

\* The auditor's AuditPull writing no row for a pull under a tag.
AuditPull_DigestOnly(log, org, name, target, who, auditFails) ==
  LET m == Get(org, name, target)
  IN  IF auditFails \/ m.err # OK \/ ~isDigestName(target) THEN log
      ELSE Append(log, [vid |-> m.id, who |-> who, at |-> now])

\* The auditor's AuditPull: CreateArtifactPullLogEntry for the version row
\* the target names, unless the write fails.
AuditPull(log, org, name, target, who, auditFails) ==
  LET m == Get(org, name, target)
  IN  IF auditFails \/ m.err # OK THEN log
      ELSE Append(log, [vid |-> m.id, who |-> who, at |-> now])

RECURSIVE FlattenTags(_)
FlattenTags(vs) ==
  IF vs = <<>> THEN <<>> ELSE Head(vs).tags \o FlattenTags(Tail(vs))

\* handler.ListTags: the tags of the versions the caller may see; n and
\* last are not used.
ListTags(org, name, customerOrgID, n, lastTag) ==
  IF GetArtifactByName(Store, org, name) = {}
    THEN [err |-> "ErrNameUnknown", out |-> <<>>]
    ELSE [err |-> OK,
          out |-> FlattenTags(GetVersionsForArtifact(<<org, name>>, customerOrgID))]

\* manifests.handleTags.
handleTags(org, name, customerOrgID, n, lastTag) ==
  LET r == ListTags(org, name, customerOrgID, n, lastTag)
  IN  IF r.err = "ErrNameUnknown"
        THEN [res |-> "regErrNameUnknown", out |-> <<>>]
        ELSE [res |-> "StatusOK", out |-> r.out]

\* handler.ListDigests: the digests of the versions the caller may see.
ListDigests(org, name, customerOrgID) ==
  IF GetArtifactByName(Store, org, name) = {}
    THEN [err |-> "ErrNameUnknown", out |-> <<>>]
    ELSE LET vs == GetVersionsForArtifact(<<org, name>>, customerOrgID)
         IN  [err |-> OK, out |-> [i \in DOMAIN vs |-> vs[i].digest]]

\* manifests.handleReferrers with the subject test turned around.
handleReferrers_NotSubject(org, name, customerOrgID, target) ==
  LET digests == ListDigests(org, name, customerOrgID)
  IN  IF AuthorizeReference(customerOrgID, org, name, target) # OK
        THEN [res |-> "regErrDenied", out |-> <<>>]
      ELSE IF ~digestParse(target) THEN [res |-> "UNSUPPORTED", out |-> <<>>]
      ELSE IF digests.err = "ErrNameUnknown"
        THEN [res |-> "regErrNameUnknown", out |-> <<>>]
      ELSE IF \E i \in DOMAIN digests.out : Get(org, name, digests.out[i]).err # OK
        THEN [res |-> "regErrInternal", out |-> <<>>]
      ELSE [res |-> "StatusOK",
            out |-> SelectSeq(digests.out,
                              LAMBDA d : ManifestSubject(Get(org, name, d).digest) # target)]

\* manifests.handleReferrers: of the digests listed for the repository,
\* those of the manifests whose subject is the target.
handleReferrers(org, name, customerOrgID, target) ==
  LET digests == ListDigests(org, name, customerOrgID)
  IN  IF AuthorizeReference(customerOrgID, org, name, target) # OK
        THEN [res |-> "regErrDenied", out |-> <<>>]
      ELSE IF ~digestParse(target) THEN [res |-> "UNSUPPORTED", out |-> <<>>]
      ELSE IF digests.err = "ErrNameUnknown"
        THEN [res |-> "regErrNameUnknown", out |-> <<>>]
      ELSE IF \E i \in DOMAIN digests.out : Get(org, name, digests.out[i]).err # OK
        THEN [res |-> "regErrInternal", out |-> <<>>]
      ELSE [res |-> "StatusOK",
            out |-> SelectSeq(digests.out,
                              LAMBDA d : /\ ManifestSubject(Get(org, name, d).digest) # NULL
                                         /\ ManifestSubject(Get(org, name, d).digest) = target)]

\* GetArtifactByID: the artifact with its versions, their tags and sizes; a
\* customer organization that sees no version gets ErrNotFound.
GetArtifactByID(art, customerOrgID) ==
  LET vs == GetVersionsForArtifact(art, customerOrgID)
  IN  IF art \notin artifacts \/ (customerOrgID # NULL /\ vs = <<>>)
        THEN [res |-> "ErrNotFound", out |-> <<>>]
        ELSE [res |-> "StatusOK", out |-> vs]

\* The row cap of a pulls query that names none.
DefaultPullCount == 50

\* parseArtifactPullFilters: the filter for the query parameters of a
\* request of the organization; a parameter that is not defined (NullInt,
\* NULL, NoArtifact) leaves the default: before is the time of the request,
\* count is 50, the others are not set.
parseArtifactPullFilters(orgID, before, after, count, cust, art, ver) ==
  [org |-> orgID,
   before |-> IF before = NullInt THEN now ELSE before,
   after |-> after,
   count |-> IF count = NullInt THEN DefaultPullCount ELSE count,
   cust |-> cust, art |-> art, ver |-> ver]

\* The WHERE clause of GetArtifactVersionPulls for pull row p joined with
\* its version row and the artifact of that.
PullSelected(p, filter) ==
  \E v \in versions :
     /\ v.id = p.vid
     /\ v.art \in artifacts
     /\ v.art[1] = filter.org
     /\ p.at < filter.before
     /\ filter.after # NullInt => p.at > filter.after
     /\ filter.cust # NULL => p.who = filter.cust
     /\ filter.art # NoArtifact => v.art = filter.art
     /\ filter.ver # NullInt => v.id = filter.ver

\* ORDER BY p.created_at DESC: the orders a set of pull rows (by position
\* in the log) can come in; rows of the same time come in either order.
NewestFirst(I) ==
  {s \in [1..Cardinality(I) -> I] :
     /\ \A j, k \in 1..Cardinality(I) : j # k => s[j] # s[k]
     /\ \A j, k \in 1..Cardinality(I) : j < k => pulls[s[j]].at >= pulls[s[k]].at}

\* GetArtifactVersionPulls: the results the query can give, the selected
\* rows newest first up to LIMIT count.
GetArtifactVersionPulls(filter) ==
  LET I == {i \in DOMAIN pulls : PullSelected(pulls[i], filter)}
      len == IF Cardinality(I) < filter.count THEN Cardinality(I) ELSE filter.count
  IN  {[j \in 1..len |-> pulls[s[j]]] : s \in NewestFirst(I)}

\* ------------------------------------------------------------------ status cleanup

\* DeploymentRevision rows: the revisions and the deployment of each; the
\* first deployment has two revisions.
Revisions == {"r1", "r2", "r3"}

DeploymentOf(rev) == IF rev = "r3" THEN "dep2" ELSE "dep1"

\* max() of a set of times, NULL for the empty set.
MaxOf(S) == IF S = {} THEN NullInt ELSE CHOOSE m \in S : \A x \in S : x <= m

\* The cleanup's subquery with the maximum taken over the statuses of the
\* revision itself.
MaxCreatedAt_PerRevision(rows, dr1) ==
  MaxOf({s.at : s \in {x \in rows : x.rev = dr1}})

\* The subquery of the cleanup's DELETE for revision dr1: the maximum, over
\* the revisions dr2 of the same deployment, of the latest created_at of the
\* statuses of dr2.
MaxCreatedAt(rows, dr1) ==
  MaxOf({MaxOf({s.at : s \in {x \in rows : x.rev = dr2}}) :
           dr2 \in {r \in Revisions : DeploymentOf(r) = DeploymentOf(dr1)}}
        \ {NullInt})

\* CleanupDeploymentRevisionStatus: the rows left of the table; without a
\* configured age (env.StatusEntriesMaxAge() nil) nothing is deleted.
CleanupDeploymentRevisionStatus(rows, statusEntriesMaxAge) ==
  IF statusEntriesMaxAge = NullInt THEN rows
  ELSE {drs \in rows :
          ~(/\ drs.at < MaxCreatedAt(rows, drs.rev)
            /\ now - drs.at > statusEntriesMaxAge)}

\* ------------------------------------------------------------------ recovery codes

\* Strings are sequences of characters. The characters tried: two lowercase
\* hex digits, an uppercase hex digit and the separator.
recoveryCodeLength == 10
recoveryCodeCount == 10

HexLower == {"7", "a"}

\* strings.ToLower on one character.
ToLower(c) == IF c = "A" THEN "a" ELSE c

\* FormatRecoveryCode: a code of the length of a recovery code gets a "-"
\* after its fifth character, any other string is returned as it is.
FormatRecoveryCode(code) ==
  IF Len(code) # recoveryCodeLength THEN code
  ELSE SubSeq(code, 1, 5) \o <<"-">> \o SubSeq(code, 6, Len(code))

\* NormalizeRecoveryCode that leaves the separators in.
NormalizeRecoveryCode_KeepsDash(code) ==
  [i \in DOMAIN code |-> ToLower(code[i])]

\* NormalizeRecoveryCode: strings.ToLower(strings.ReplaceAll(code, "-", "")).
NormalizeRecoveryCode(code) ==
  LET replaced == SelectSeq(code, LAMBDA c : c # "-")
  IN  [i \in DOMAIN replaced |-> ToLower(replaced[i])]

\* ------------------------------------------------------------------ actions

EmptyStore == [artifacts |-> {}, versions |-> {}, parts |-> {}, nextId |-> 1]

\* The filter of a request that is no query of the pulls.
NoFilter == [org |-> NULL, before |-> NullInt, after |-> NullInt,
             count |-> NullInt, cust |-> NULL, art |-> NoArtifact,
             ver |-> NullInt]

NoRequest == [op |-> "none", org |-> NULL, name |-> NULL, ref |-> NULL,
              digest |-> NULL, cust |-> NULL, fault |-> "none", res |-> NULL,
              pre |-> EmptyStore, n |-> 0, log |-> <<>>, out |-> <<>>,
              was |-> {}, filter |-> NoFilter, trace |-> <<>>]

\* What a step leaves in last: the request with the store before it (h), or
\* nothing, for the specification that does not look back at writes.
Recorded(h, request) == IF h THEN request ELSE NoRequest

\* Organization.artifact_tag_limit values tried: unset, a limit the
\* organization is at with no tag, and limits that let it have one tag and
\* two tags.
TagLimits == {NullInt, 0, 2, 3}

\* The concurrent requests; none of them has a transaction open.
Procs == {"p1", "p2"}

NoTx == [pc |-> "idle", op |-> "none", name |-> NULL, ref |-> NULL,
         digest |-> NULL,
         k |-> 0, found |-> FALSE, arts |-> {}, ins |-> {}, del |-> {},
         parts |-> {}, seen |-> 0, e1 |-> OK, e2 |-> OK, why |-> NULL,
         conc |-> FALSE, res |-> NULL]

\* The recovery codes told apart: the first of every batch that
\* CreateMFARecoveryCodes inserts.
MarkedCodes == {1}
CodeIds == (1..MaxBatches) \X MarkedCodes

\* The two builds the missing UPDATE statements of the user row allow:
\* UpdateUserAccountMFASecret with or without a guard on mfa_enabled, and
\* DisableUserAccountMFA clearing the secret or keeping it.
Builds == [guarded : BOOLEAN, clears : BOOLEAN]

\* A user without MFA: no secret, no recovery codes. setup counts the
\* secrets generated, batch the batches of recovery codes created, verified
\* is the secret the enable request that enabled MFA validated its code
\* against, wins the successful MarkMFARecoveryCodeAsUsed calls per code.
NoAccount == [enabled |-> FALSE, secret |-> 0, codes |-> {}, setups |-> 0,
              batches |-> 0, verified |-> 0, wins |-> [c \in CodeIds |-> 0],
              build |-> [guarded |-> FALSE, clears |-> FALSE]]

\* No MFA request of a process.
NoMfaRequest == [pc |-> "idle", op |-> "none", user |-> [enabled |-> FALSE, secret |-> 0],
                 code |-> <<0, 0>>, target |-> {}, del |-> {}, ins |-> {}, res |-> NULL]

\* The goroutines sharing one agent client.
Goroutines == {"g1", "g2"}

\* A goroutine with no request at work.
NoCall == [pc |-> "idle", tok |-> 0, bearer |-> 0, retry |-> FALSE, res |-> NULL]

\* An agent client that has not logged in: no token (token nil, rawToken
\* empty: 0), mutex free. Tokens are numbered by login; those up to stale
\* have expired, those up to soon expire within 30 seconds.
NoClient == [token |-> 0, rawToken |-> 0, logins |-> 0, stale |-> 0, soon |-> 0,
             mutex |-> NULL, go |-> [g \in Goroutines |-> NoCall]]

InitAccounts ==
  /\ account = NoAccount
  /\ mfa = [p \in Procs |-> NoMfaRequest]
  /\ client = NoClient

\* No recursive query has run.
\* turn tells one iteration from the next.
NoWalk == [pc |-> "idle", kind |-> "none", work |-> {}, turn |-> 0, res |-> NULL]

\* No recovery code.
NoCode == [stage |-> "none", code |-> <<>>, formatted |-> <<>>,
           normalized |-> <<>>]

\* The state after construction, but for the organizations' settings and
\* the recovery code.
InitRegistry ==
  /\ tx = [p \in Procs |-> NoTx]
  /\ statuses = {}
  /\ walk = NoWalk
  /\ InitAccounts
  /\ artifacts = {}
  /\ versions = {}
  /\ parts = {}
  /\ nextId = 1
  /\ licenses = {}
  /\ now = 0
  /\ pulls = <<>>
  /\ last = NoRequest

InitStore == InitRegistry /\ recovery = NoCode

Init ==
  /\ InitStore
  /\ mutableTags \in {{}, Orgs}
  /\ tagLimit \in {[o \in Orgs |-> l] : l \in TagLimits}

Commit(db) ==
  /\ artifacts' = db.artifacts
  /\ versions' = db.versions
  /\ parts' = db.parts
  /\ nextId' = db.nextId

\* PUT /{org}/{name}/manifests/{target} with a body whose digest is digest.
PutManifest(org, name, target, digest, fault, h) ==
  /\ nextId + 1 <= MaxVersionId
  /\ LET r == handlePut(Store, org, name, target, digest, fault)
     IN  /\ Commit(r.db)
         /\ last' = Recorded(h,
                     [op |-> "PUT", org |-> org, name |-> name, ref |-> target,
                      digest |-> digest, cust |-> NULL, fault |-> fault,
                      res |-> IF r.err = OK THEN "Created" ELSE r.err,
                      pre |-> Store, n |-> 0, log |-> <<>>, out |-> <<>>,
                      was |-> {}, filter |-> NoFilter, trace |-> <<>>])
  /\ UNCHANGED <<licenses, now, mutableTags, tagLimit, pulls, elsewhere>>

\* DELETE /{org}/{name}/manifests/{target}.
DeleteManifest(org, name, target, h) ==
  /\ LET r == handleDelete(Store, org, name, target)
     IN  /\ Commit(r.db)
         /\ last' = Recorded(h,
                     [op |-> "DELETE", org |-> org, name |-> name,
                      ref |-> target, digest |-> NULL, cust |-> NULL,
                      fault |-> "none", res |-> r.err, pre |-> Store,
                      n |-> 0, log |-> <<>>, out |-> <<>>, was |-> {},
                      filter |-> NoFilter, trace |-> <<>>])
  /\ UNCHANGED <<licenses, now, mutableTags, tagLimit, pulls, elsewhere>>

\* The license check of a customer's request for a manifest reference.
AuthorizeManifest(cust, org, name, reference) ==
  /\ CustomerOrg(cust) = org
  /\ last' = [NoRequest EXCEPT
                !.op = "AUTHZ",
                !.res = CheckLicenseForArtifact(org, name, reference, cust, org)]
  /\ UNCHANGED <<artifacts, versions, parts, nextId, licenses, now,
                 mutableTags, tagLimit, pulls, elsewhere>>

\* The license check of a customer's request for a blob.
AuthorizeBlob(cust, digest) ==
  /\ last' = [NoRequest EXCEPT
                !.op = "AUTHZBLOB",
                !.res = CheckLicenseForArtifactBlob(digest, cust, CustomerOrg(cust))]
  /\ UNCHANGED <<artifacts, versions, parts, nextId, licenses, now,
                 mutableTags, tagLimit, pulls, elsewhere>>

\* A vendor grants a customer of its organization a license: for no
\* artifact yet, for a whole artifact, or for one version of an artifact.
CreateLicense(cust, art, ver, exp) ==
  /\ Cardinality(licenses) < MaxLicenses
  /\ art # NoArtifact => art \in artifacts /\ art[1] = CustomerOrg(cust)
  /\ ver # NullInt => \E v \in versions : v.id = ver /\ v.art = art
  /\ licenses' = licenses \cup {[org |-> CustomerOrg(cust), cust |-> cust,
                                 exp |-> exp, art |-> art, ver |-> ver]}
  /\ last' = NoRequest
  /\ UNCHANGED <<artifacts, versions, parts, nextId, now, mutableTags, tagLimit,
                 pulls, elsewhere>>

\* Time passes.
Tick ==
  /\ now < MaxTime
  /\ now' = now + 1
  /\ last' = NoRequest
  /\ UNCHANGED <<artifacts, versions, parts, nextId, licenses, mutableTags,
                 tagLimit, pulls, elsewhere>>

\* GET or HEAD /{org}/{name}/manifests/{target} by a principal: the
\* authorization, the lookup and, on success, the audit of the pull.
GetManifest(method, who, org, name, target, auditFails) ==
  /\ Len(pulls) < MaxPulls
  /\ LET res == IF AuthorizeReference(who, org, name, target) # OK
                  THEN "regErrDenied"
                  ELSE handleGet(org, name, target)
     IN  /\ pulls' = IF res = "StatusOK"
                       THEN AuditPull(pulls, org, name, target, who, auditFails)
                       ELSE pulls
         /\ last' = [NoRequest EXCEPT
                       !.op = method, !.org = org, !.name = name, !.ref = target,
                       !.cust = who,
                       !.fault = IF auditFails THEN "audit" ELSE "none",
                       !.res = res, !.log = pulls]
  /\ UNCHANGED <<artifacts, versions, parts, nextId, licenses, now,
                 mutableTags, tagLimit, elsewhere>>

\* GET /{org}/{name}/tags/list?n=&last= by a principal.
GetTags(who, org, name, n, lastTag) ==
  /\ LET r == handleTags(org, name, who, n, lastTag)
     IN  last' = [NoRequest EXCEPT
                    !.op = "TAGS", !.org = org, !.name = name, !.ref = lastTag,
                    !.cust = who, !.n = n, !.res = r.res, !.out = r.out]
  /\ UNCHANGED <<artifacts, versions, parts, nextId, licenses, now,
                 mutableTags, tagLimit, pulls, elsewhere>>

\* GET /{org}/{name}/referrers/{target} by a principal.
GetReferrers(who, org, name, target) ==
  /\ LET r == handleReferrers(org, name, who, target)
     IN  last' = [NoRequest EXCEPT
                    !.op = "REFERRERS", !.org = org, !.name = name,
                    !.ref = target, !.cust = who, !.res = r.res, !.out = r.out]
  /\ UNCHANGED <<artifacts, versions, parts, nextId, licenses, now,
                 mutableTags, tagLimit, pulls, elsewhere>>

\* The versions of an artifact with their sizes, read by a principal.
GetArtifact(who, org, name) ==
  /\ LET r == GetArtifactByID(<<org, name>>, who)
     IN  last' = [NoRequest EXCEPT
                    !.op = "ARTIFACT", !.org = org, !.name = name,
                    !.cust = who, !.res = r.res, !.out = r.out]
  /\ UNCHANGED <<artifacts, versions, parts, nextId, licenses, now,
                 mutableTags, tagLimit, pulls, elsewhere>>

\* The pulls of an organization queried with the parameters given.
QueryPulls(orgID, before, after, count, cust, art, ver) ==
  /\ LET filter == parseArtifactPullFilters(orgID, before, after, count, cust, art, ver)
     IN  \E rows \in GetArtifactVersionPulls(filter) :
            last' = [NoRequest EXCEPT
                       !.op = "PULLS", !.org = orgID, !.filter = filter,
                       !.out = rows]
  /\ UNCHANGED <<artifacts, versions, parts, nextId, licenses, now,
                 mutableTags, tagLimit, pulls, elsewhere>>

\* Pushes, tag deletes and license grants, one request at a time; last keeps
\* each request with the store before it.
Next ==
  \/ \E r \in Repos, d \in Digests, f \in Faults :
       \E t \in Tags \cup {d} : PutManifest(r[1], r[2], t, d, f, TRUE)
  \/ \E r \in Repos, t \in References : DeleteManifest(r[1], r[2], t, TRUE)
  \/ \E a \in Repos \cup {NoArtifact}, v \in (1..MaxVersionId) \cup {NullInt} :
       CreateLicense("c1", a, v, NullInt)

Spec == Init /\ [][Next]_vars

\* The same store with licenses of every customer that may expire, and the
\* license checks of customers' requests.
NextAuthz ==
  \/ \E r \in Repos, d \in Digests :
       \E t \in Tags \cup {d} : PutManifest(r[1], r[2], t, d, "none", FALSE)
  \/ \E r \in Repos, t \in Tags : DeleteManifest(r[1], r[2], t, FALSE)
  \/ \E c \in Customers, a \in Repos \cup {NoArtifact},
        v \in (1..MaxVersionId) \cup {NullInt}, e \in (1..MaxTime) \cup {NullInt} :
       CreateLicense(c, a, v, e)
  \/ Tick
  \/ \E c \in Customers, r \in Repos, t \in References :
       AuthorizeManifest(c, r[1], r[2], t)
  \/ \E c \in Customers, b \in Digests \cup Blobs : AuthorizeBlob(c, b)

\* One organization setting is enough here: the license checks read neither.
InitAuthz == Init /\ mutableTags = Orgs /\ tagLimit = [o \in Orgs |-> NullInt]

SpecAuthz == InitAuthz /\ [][NextAuthz]_vars

\* Pushes to one repository (the other one never exists), pulls by the
\* vendor and by customer c1 whose audit write may fail, a license that puts
\* the tenant in enforced mode, and reads of the versions with their sizes.
NextPull ==
  \/ \E d \in Digests :
       \E t \in Tags \cup {d} : PutManifest("o1", "a1", t, d, "none", FALSE)
  \/ \E m \in {"GET", "HEAD"}, who \in Principals, r \in Repos,
        t \in References, f \in BOOLEAN :
       GetManifest(m, who, r[1], r[2], t, f)
  \/ CreateLicense("c2", NoArtifact, NullInt, NullInt)
  \/ \E who \in Principals, r \in Repos : GetArtifact(who, r[1], r[2])

SpecPull == InitAuthz /\ [][NextPull]_vars

\* Pushes, tag deletes, licenses of the customers of the tenant, and the
\* listings: tags, with a limit and a cursor, and referrers.
NextList ==
  \/ \E r \in Repos, d \in Digests :
       \E t \in Tags \cup {d} : PutManifest(r[1], r[2], t, d, "none", FALSE)
  \/ \E r \in Repos, t \in Tags : DeleteManifest(r[1], r[2], t, FALSE)
  \/ \E a \in Repos, v \in (1..MaxVersionId) \cup {NullInt} :
       CreateLicense("c1", a, v, NullInt)
  \/ CreateLicense("c2", NoArtifact, NullInt, NullInt)
  \/ \E who \in Principals, r \in Repos, l \in {NULL, "t1"} :
       GetTags(who, r[1], r[2], 1, l)
  \/ \E who \in Principals, r \in Repos, t \in Digests \cup {"t1"} :
       GetReferrers(who, r[1], r[2], t)

SpecList == InitAuthz /\ [][NextList]_vars

\* Pushes to one repository, pulls at different times by the vendor and by
\* a customer, and queries of the pull log.
NextAudit ==
  \/ \E d \in Digests : PutManifest("o1", "a1", "t1", d, "none", FALSE)
  \/ \E who \in Principals, t \in {"t1", "sha256:d1"} :
       GetManifest("GET", who, "o1", "a1", t, FALSE)
  \/ Tick
  \/ \E o \in Orgs, b \in {NullInt, 1}, a \in {NullInt, 0}, c \in {NullInt, 1},
        cust \in {NULL, "c1"}, art \in {NoArtifact, <<"o1", "a1">>},
        ver \in {NullInt, 1} :
       QueryPulls(o, b, a, c, cust, art, ver)

SpecAudit == InitAuthz /\ [][NextAudit]_vars

\* A status entry is recorded for a revision.
CreateStatus(rev) ==
  /\ Cardinality(statuses) < MaxStatuses
  /\ LET id == CHOOSE i \in 1..MaxStatuses :
                 /\ \A s \in statuses : s.id # i
                 /\ \A j \in 1..(i - 1) : \E s \in statuses : s.id = j
     IN  statuses' = statuses \cup {[id |-> id, rev |-> rev, at |-> now]}
  /\ last' = NoRequest
  /\ UNCHANGED <<artifacts, versions, parts, nextId, licenses, now,
                 mutableTags, tagLimit, pulls, tx, recovery, walk, accounts>>

\* Time passes for the status entries.
Age ==
  /\ now < MaxStatusTime
  /\ now' = now + 1
  /\ last' = NoRequest
  /\ UNCHANGED <<artifacts, versions, parts, nextId, licenses, mutableTags,
                 tagLimit, pulls, elsewhere>>

\* The cleanup job runs with the configured age.
Cleanup(statusEntriesMaxAge) ==
  /\ statuses' = CleanupDeploymentRevisionStatus(statuses, statusEntriesMaxAge)
  /\ last' = [NoRequest EXCEPT !.op = "CLEANUP", !.n = statusEntriesMaxAge,
                               !.was = statuses]
  /\ UNCHANGED <<artifacts, versions, parts, nextId, licenses, now,
                 mutableTags, tagLimit, pulls, tx, recovery, walk, accounts>>

\* Ages the cleanup is configured with: none, and two ages.
MaxAges == {NullInt, 0, 1}

NextCleanup ==
  \/ \E rev \in Revisions : CreateStatus(rev)
  \/ Age
  \/ \E a \in MaxAges : Cleanup(a)

SpecCleanup == InitAuthz /\ [][NextCleanup]_vars

\* The codes tried: every string of lowercase hex digits one short of a
\* recovery code, and each of them with one more character of any kind.
Codes ==
  LET short == [1..(recoveryCodeLength - 1) -> HexLower]
  IN  short \cup {h \o <<c>> : h \in short, c \in HexLower \cup {"A", "-"}}

InitRecovery ==
  /\ InitRegistry
  /\ mutableTags = Orgs
  /\ tagLimit = [o \in Orgs |-> NullInt]
  /\ recovery \in {[NoCode EXCEPT !.stage = "code", !.code = c] : c \in Codes}

\* The code is formatted for display.
Format ==
  /\ recovery.stage = "code"
  /\ recovery' = [recovery EXCEPT !.stage = "formatted",
                                  !.formatted = FormatRecoveryCode(recovery.code)]
  /\ UNCHANGED <<artifacts, versions, parts, nextId, licenses, now,
                 mutableTags, tagLimit, pulls, last, tx, statuses, walk, accounts>>

\* The formatted code is typed back in and normalized.
Normalize ==
  /\ recovery.stage = "formatted"
  /\ recovery' = [recovery EXCEPT !.stage = "normalized",
                                  !.normalized = NormalizeRecoveryCode(recovery.formatted)]
  /\ UNCHANGED <<artifacts, versions, parts, nextId, licenses, now,
                 mutableTags, tagLimit, pulls, last, tx, statuses, walk, accounts>>

NextRecovery == Format \/ Normalize

SpecRecovery == InitRecovery /\ [][NextRecovery]_vars

\* ------------------------------------------------------------------ authorization gate

\* The authorizer's answer for an action on a reference of a repository:
\* ErrAccessDenied unless the principal's role grants the action (granted),
\* and for reading a manifest the license check on top of that.
AuthorizeAction(action, customerOrgID, org, name, reference, granted) ==
  IF ~granted THEN "ErrAccessDenied"
  ELSE IF action \in {"ActionRead", "ActionStat"} /\ reference # NULL
    THEN AuthorizeReference(customerOrgID, org, name, reference)
    ELSE OK

\* What a request did, in order: the components it called with the store
\* and the pull log it leaves.
Served(db, log, res, out, trace) ==
  [db |-> db, pulls |-> log, res |-> res, out |-> out, trace |-> trace]

\* manifests.handle with the handler called before the authorizer is asked.
handle_HandlerFirst(method, who, org, name, target, digest, granted) ==
  LET action == CASE method = "GET" -> "ActionRead"
                  [] method = "HEAD" -> "ActionStat"
                  [] OTHER -> "ActionWrite"
      err == AuthorizeAction(action, who, org, name, target, granted)
      got == handleGet(org, name, target)
      put == handlePut(Store, org, name, target, digest, "none")
      del == handleDelete(Store, org, name, target)
      res == IF err = "ErrAccessDenied" THEN "regErrDenied"
             ELSE CASE method \in {"GET", "HEAD"} -> got
                    [] method = "PUT" -> IF put.err = OK THEN "Created" ELSE put.err
                    [] OTHER -> del.err
  IN  CASE method \in {"GET", "HEAD"} ->
             IF got = "StatusOK"
               THEN Served(Store, AuditPull(pulls, org, name, target, who, FALSE),
                           res, <<>>, <<"store", "audit", "authz">>)
               ELSE Served(Store, pulls, res, <<>>, <<"store", "authz">>)
        [] method = "PUT" -> Served(put.db, pulls, res, <<>>, <<"store", "authz">>)
        [] OTHER -> Served(del.db, pulls, res, <<>>, <<"store", "authz">>)

\* manifests.handle: the authorizer is asked first, and only a request it
\* lets through reaches handleGet, handleHead, handlePut or handleDelete.
handle(method, who, org, name, target, digest, granted) ==
  LET action == CASE method = "GET" -> "ActionRead"
                  [] method = "HEAD" -> "ActionStat"
                  [] OTHER -> "ActionWrite"
      err == AuthorizeAction(action, who, org, name, target, granted)
      got == handleGet(org, name, target)
      put == handlePut(Store, org, name, target, digest, "none")
      del == handleDelete(Store, org, name, target)
  IN  IF err = "ErrAccessDenied"
        THEN Served(Store, pulls, "regErrDenied", <<>>, <<"authz">>)
      ELSE CASE method \in {"GET", "HEAD"} ->
                  IF got = "StatusOK"
                    THEN Served(Store, AuditPull(pulls, org, name, target, who, FALSE),
                                got, <<>>, <<"authz", "store", "audit">>)
                    ELSE Served(Store, pulls, got, <<>>, <<"authz", "store">>)
             [] method = "PUT" ->
                  Served(put.db, pulls, IF put.err = OK THEN "Created" ELSE put.err,
                         <<>>, <<"authz", "store">>)
             [] OTHER -> Served(del.db, pulls, del.err, <<>>, <<"authz", "store">>)

\* manifests.handleTags from its first statement: Authorize for reading the
\* repository, then the listing.
handleTagsRequest(who, org, name, granted) ==
  LET err == AuthorizeAction("ActionRead", who, org, name, NULL, granted)
      r == handleTags(org, name, who, 0, NULL)
  IN  IF err = "ErrAccessDenied"
        THEN Served(Store, pulls, "regErrDenied", <<>>, <<"authz">>)
        ELSE Served(Store, pulls, r.res, r.out, <<"authz", "store">>)

\* manifests.handleReferrers from its first statement: AuthorizeReference
\* for reading the target, then the rest of the handler.
handleReferrersRequest(who, org, name, target, granted) ==
  LET err == AuthorizeAction("ActionRead", who, org, name, target, granted)
      r == handleReferrers(org, name, who, target)
  IN  IF err = "ErrAccessDenied"
        THEN Served(Store, pulls, "regErrDenied", <<>>, <<"authz">>)
      ELSE IF ~digestParse(target)
        THEN Served(Store, pulls, r.res, r.out, <<"authz">>)
        ELSE Served(Store, pulls, r.res, r.out, <<"authz", "store">>)

Methods == {"GET", "HEAD", "PUT", "DELETE"}

\* One request of a principal to one of the routes the authorizer guards.
Serve(route, who, org, name, target, digest, granted) ==
  /\ route = "PUT" => nextId + 1 <= MaxVersionId
  /\ route \in {"GET", "HEAD"} => Len(pulls) < MaxPulls
  /\ LET r == CASE route \in Methods ->
                     handle(route, who, org, name, target, digest, granted)
                [] route = "TAGS" -> handleTagsRequest(who, org, name, granted)
                [] OTHER -> handleReferrersRequest(who, org, name, target, granted)
     IN  /\ Commit(r.db)
         /\ pulls' = r.pulls
         /\ last' = [NoRequest EXCEPT
                       !.op = route, !.org = org, !.name = name, !.ref = target,
                       !.digest = digest, !.cust = who,
                       !.fault = IF granted THEN "none" ELSE "role",
                       !.res = r.res, !.pre = Store, !.log = pulls,
                       !.out = r.out, !.trace = r.trace]
  /\ UNCHANGED <<licenses, now, mutableTags, tagLimit, elsewhere>>

\* Requests of the vendor and of customers to one repository on every
\* guarded route, with and without the role for them, next to licenses.
NextGate ==
  \/ \E m \in Methods, who \in Principals, t \in {"t1", "sha256:d1"},
        granted \in BOOLEAN :
       Serve(m, who, "o1", "a1", t, IF m = "PUT" THEN "sha256:d1" ELSE NULL, granted)
  \/ \E who \in Principals, granted \in BOOLEAN :
       Serve("TAGS", who, "o1", "a1", NULL, NULL, granted)
  \/ \E who \in Principals, t \in {"t1", "sha256:d1"}, granted \in BOOLEAN :
       Serve("REFERRERS", who, "o1", "a1", t, NULL, granted)
  \/ \E c \in Customers : CreateLicense(c, NoArtifact, NullInt, NullInt)

SpecGate == InitAuthz /\ [][NextGate]_vars

\* ------------------------------------------------------------------ recursive queries

\* The customer organization whose license the checks look for.
WalkCustomer == "c1"

\* The two manifests of the parts graphs tried, each stored under its
\* digest in o1/a1.
WalkVersions ==
  {[id |-> 1, art |-> <<"o1", "a1">>, name |-> "sha256:d1", digest |-> "sha256:d1"],
   [id |-> 2, art |-> <<"o1", "a1">>, name |-> "sha256:d2", digest |-> "sha256:d2"]}

\* Every ArtifactVersionPart row the schema admits for them: a part is any
\* digest, that of a blob or that of a manifest, the version's own included.
WalkParts == [vid : {1, 2}, blob : {"sha256:d1", "sha256:d2", "b1"}]

\* The licenses tried: none, one of another customer, one of the customer
\* for the whole artifact, and one pinned to the second manifest.
WalkLicenses ==
  {{},
   {[org |-> "o1", cust |-> "c2", exp |-> NullInt, art |-> NoArtifact, ver |-> NullInt]},
   {[org |-> "o1", cust |-> WalkCustomer, exp |-> NullInt, art |-> <<"o1", "a1">>,
     ver |-> NullInt]},
   {[org |-> "o1", cust |-> WalkCustomer, exp |-> NullInt, art |-> <<"o1", "a1">>,
     ver |-> 2]}}

\* A store holding the two manifests with any set of part rows.
InitWalk ==
  /\ tx = [p \in Procs |-> NoTx]
  /\ statuses = {}
  /\ recovery = NoCode
  /\ walk = NoWalk
  /\ InitAccounts
  /\ artifacts = {<<"o1", "a1">>}
  /\ versions = WalkVersions
  /\ parts \in SUBSET WalkParts
  /\ nextId = 3
  /\ licenses \in WalkLicenses
  /\ now = 0
  /\ pulls = <<>>
  /\ last = NoRequest
  /\ mutableTags = Orgs
  /\ tagLimit = [o \in Orgs |-> NullInt]

WalkFrame == UNCHANGED <<artifacts, versions, parts, nextId, licenses, now,
                         mutableTags, tagLimit, pulls, last, tx, statuses,
                         recovery, accounts>>

\* A query begins with its non-recursive term as the working table.
StartWalk(kind, work) ==
  /\ walk.pc \in {"idle", "done"}
  /\ walk' = [pc |-> "running", kind |-> kind, work |-> work, turn |-> 0,
               res |-> NULL]
  /\ WalkFrame

\* CheckLicenseForArtifact up to the non-recursive term of its query; with
\* no license in the organization the query is not run.
StartLicenseCheck(reference) ==
  /\ HasAnyArtifactLicense("o1")
  /\ StartWalk("license",
               {av \in versions :
                  /\ av.art = <<"o1", "a1">>
                  /\ \E avx \in versions :
                       /\ avx.art = av.art
                       /\ avx.digest = av.digest
                       /\ (avx.name = reference \/ avx.digest = reference)})

\* CheckLicenseForArtifactBlob up to the non-recursive term of its query.
StartBlobCheck(digest) ==
  /\ HasAnyArtifactLicense("o1")
  /\ StartWalk("blob",
               {av \in versions :
                  \E avp \in parts : avp.vid = av.id /\ avp.blob = digest})

\* The size aggregate of GetVersionsForArtifact for version av up to its
\* non-recursive term: the parts of av.
StartSizeAggregate(av) ==
  StartWalk("size", {<<avp.vid, avp.blob>> : avp \in {q \in parts : q.vid = av}})

\* One iteration of WITH RECURSIVE ... UNION ALL: the rows of the working
\* table go to the result and the recursive term evaluated on them is the
\* next working table; the query ends when the working table is empty.
\* UNION ALL drops no row that the result already has. SELECT exists(...)
\* of the license checks ends the query at the first licensed row; SELECT
\* DISTINCT * of the size aggregate needs every row.
WalkStep ==
  /\ walk.pc = "running"
  /\ walk' =
       IF walk.kind = "size"
         THEN IF walk.work = {}
                THEN [walk EXCEPT !.pc = "done", !.res = OK]
                ELSE [walk EXCEPT !.work = SizeAggregateStep(walk.work),
                                  !.turn = 1 - walk.turn]
       ELSE IF LicenseExists(walk.work, WalkCustomer)
         THEN [walk EXCEPT !.pc = "done", !.res = OK]
       ELSE IF walk.work = {}
         THEN [walk EXCEPT !.pc = "done", !.res = "ErrForbidden"]
         ELSE [walk EXCEPT !.work = AggregateStep(walk.work),
                           !.turn = 1 - walk.turn]
  /\ WalkFrame

NextWalk ==
  \/ \E r \in {"sha256:d1", "sha256:d2"} : StartLicenseCheck(r)
  \/ \E d \in {"sha256:d1", "sha256:d2", "b1"} : StartBlobCheck(d)
  \/ \E av \in {1, 2} : StartSizeAggregate(av)
  \/ WalkStep

\* A query that has begun is run on: the database does not stop evaluating
\* a statement.
SpecWalk == InitWalk /\ [][NextWalk]_vars /\ WF_vars(WalkStep)

\* ------------------------------------------------------------------ nested manifests

\* The stores tried: image d1 tagged t1 in o1/a1; index d2, tagged t2, in
\* artifact x2 and index d3 in artifact x3, as pushes of them leave them;
\* d2 may list d1 and d3 may list d2 as an instance.
PartsStores ==
  {[artifacts |-> {<<"o1", "a1">>, <<"o1", x2>>, <<"o1", x3>>},
    versions |->
      {[id |-> 1, art |-> <<"o1", "a1">>, name |-> "sha256:d1", digest |-> "sha256:d1"],
       [id |-> 2, art |-> <<"o1", "a1">>, name |-> "t1", digest |-> "sha256:d1"],
       [id |-> 3, art |-> <<"o1", x2>>, name |-> "sha256:d2", digest |-> "sha256:d2"],
       [id |-> 4, art |-> <<"o1", x2>>, name |-> "t2", digest |-> "sha256:d2"],
       [id |-> 5, art |-> <<"o1", x3>>, name |-> OuterIndex, digest |-> OuterIndex]},
    parts |-> p2 \cup p3,
    nextId |-> 6] :
     x2 \in ArtifactNames, x3 \in ArtifactNames,
     p2 \in {{}, {[vid |-> 3, blob |-> "sha256:d1"], [vid |-> 4, blob |-> "sha256:d1"]}},
     p3 \in {{}, {[vid |-> 5, blob |-> "sha256:d2"]}}}

\* The licenses tried on store db: none, one of another customer, and one
\* of c1 pinned to any one version row.
PartsLicenses(db) ==
  {{}, {[org |-> "o1", cust |-> "c2", exp |-> NullInt, art |-> NoArtifact,
         ver |-> NullInt]}}
  \cup {{[org |-> "o1", cust |-> "c1", exp |-> NullInt, art |-> v.art, ver |-> v.id]} :
          v \in db.versions}

InitParts ==
  /\ tx = [p \in Procs |-> NoTx]
  /\ statuses = {}
  /\ recovery = NoCode
  /\ walk = NoWalk
  /\ InitAccounts
  /\ \E db \in PartsStores :
       /\ artifacts = db.artifacts
       /\ versions = db.versions
       /\ parts = db.parts
       /\ nextId = db.nextId
       /\ licenses \in PartsLicenses(db)
  /\ now = 0
  /\ pulls = <<>>
  /\ last = NoRequest
  /\ mutableTags = Orgs
  /\ tagLimit = [o \in Orgs |-> NullInt]

\* The vendor grants a customer one more license, for a whole artifact or
\* for one of its versions.
GrantLicense(cust, art, ver) ==
  /\ Cardinality(licenses) < MaxPartsLicenses
  /\ art \in artifacts /\ art[1] = CustomerOrg(cust)
  /\ ver # NullInt => \E v \in versions : v.id = ver /\ v.art = art
  /\ licenses' = licenses \cup {[org |-> CustomerOrg(cust), cust |-> cust,
                                 exp |-> NullInt, art |-> art, ver |-> ver]}
  /\ licenses' # licenses
  /\ last' = [NoRequest EXCEPT !.op = "LICENSE", !.org = art[1], !.name = art[2],
                               !.cust = cust, !.n = ver]
  /\ UNCHANGED <<artifacts, versions, parts, nextId, now, mutableTags, tagLimit,
                 pulls, elsewhere>>

\* The customer's pulls, by tag and by digest, tag listings, and further
\* licenses.
NextParts ==
  \/ \E r \in Repos, t \in References \cup {OuterIndex} :
       AuthorizeManifest("c1", r[1], r[2], t)
  \/ \E r \in Repos : GetTags("c1", r[1], r[2], 0, NULL)
  \/ \E r \in Repos, v \in (1..5) \cup {NullInt} : GrantLicense("c1", r, v)

SpecParts == InitParts /\ [][NextParts]_vars

\* ------------------------------------------------------------------ MFA settings

\* The committed row of the user as GetUserAccountByID reads it.
UserRow == [enabled |-> account.enabled, secret |-> account.secret]

\* Process p's request record becomes r.
SetMfa(p, r) == mfa' = [mfa EXCEPT ![p] = r]

\* The request of p ends with response res; a transaction it had open is
\* rolled back. The code a call of MarkMFARecoveryCodeAsUsed was for stays
\* on record.
MfaDone(p, res) ==
  SetMfa(p, [NoMfaRequest EXCEPT !.res = res,
                                 !.code = IF mfa[p].op = "mark" THEN mfa[p].code ELSE <<0, 0>>])

MfaFrame == UNCHANGED <<artifacts, versions, parts, nextId, licenses, now,
                        mutableTags, tagLimit, pulls, last, tx, statuses,
                        recovery, walk, client>>

\* Another process has updated the user row in a transaction still open.
UserRowLocked(p) ==
  \E q \in Procs \ {p} :
     mfa[q].op \in {"enable", "disable"} /\ mfa[q].pc \in {"insert", "delete", "deleting", "commit"}

\* Another process has deleted one of the code rows B in a transaction
\* still open.
CodesLocked(p, B) == \E q \in Procs \ {p} : mfa[q].del \cap B # {}

\* The batches of recovery codes being created or still to be created by
\* the requests in flight.
Creating == Cardinality({q \in Procs : mfa[q].op \in {"enable", "regenerate"}
                                        /\ mfa[q].pc # "idle"})

\* A request arrives: setup, enable with a TOTP code (code[1]: the secret
\* it is valid for), disable or regenerate with a password (code[1] = 1: the
\* right one), or the use of a recovery code (code: batch and number).
MfaBegin(p, op, code) ==
  /\ mfa[p].pc = "idle"
  /\ op = "setup" =>
       account.setups + Cardinality({q \in Procs : mfa[q].op = "setup" /\ mfa[q].pc # "idle"})
         < MaxSetups
  /\ op \in {"enable", "regenerate"} => account.batches + Creating < MaxBatches
  /\ SetMfa(p, [NoMfaRequest EXCEPT !.pc = IF op = "mark" THEN "mark" ELSE "read",
                                    !.op = op, !.code = code])
  /\ UNCHANGED account
  /\ MfaFrame

\* GetUserAccountByID and the checks each handler makes on the row it read.
MfaRead(p) ==
  /\ mfa[p].pc = "read"
  /\ LET user == UserRow
         r == [mfa[p] EXCEPT !.user = user]
         refused ==
           CASE r.op \in {"setup", "enable"} /\ user.enabled -> "400 already enabled"
             [] r.op = "enable" /\ user.secret = 0 -> "400 not set up"
             [] r.op = "enable" /\ r.code[1] # user.secret -> "400 invalid code"
             [] r.op \in {"disable", "regenerate"} /\ ~user.enabled -> "400 not enabled"
             [] r.op \in {"disable", "regenerate"} /\ r.code[1] # 1 -> "401 invalid password"
             [] OTHER -> NULL
     IN  SetMfa(p, IF refused # NULL
                     THEN [NoMfaRequest EXCEPT !.res = refused]
                     ELSE [r EXCEPT !.pc = CASE r.op = "setup" -> "write"
                                            [] r.op = "regenerate" -> "delete"
                                            [] OTHER -> "update"])
  /\ UNCHANGED account
  /\ MfaFrame

\* mfaSetupHandler's UpdateUserAccountMFASecret with the key generated.
MfaSetupWrite(p) ==
  /\ mfa[p].pc = "write"
  /\ ~UserRowLocked(p)
  /\ account' = [account EXCEPT
                   !.setups = @ + 1,
                   !.secret = IF account.build.guarded /\ account.enabled
                                THEN @ ELSE account.setups + 1]
  /\ MfaDone(p, "200")
  /\ MfaFrame

\* The first statement of the transaction of enable and disable:
\* EnableUserAccountMFA or DisableUserAccountMFA. mfa_enabled = true with no
\* secret violates mfa_secret_not_null_if_enabled.
MfaUpdate(p) ==
  /\ mfa[p].pc = "update"
  /\ ~UserRowLocked(p)
  /\ IF mfa[p].op = "enable" /\ account.secret = 0
       THEN MfaDone(p, "500")
       ELSE SetMfa(p, [mfa[p] EXCEPT !.pc = IF mfa[p].op = "enable"
                                              THEN "insert" ELSE "delete"])
  /\ UNCHANGED account
  /\ MfaFrame

\* DeleteAllMFARecoveryCodes begins: the rows of the user committed now are
\* the ones the statement deletes.
MfaDelete(p) ==
  /\ mfa[p].pc = "delete"
  /\ SetMfa(p, [mfa[p] EXCEPT !.pc = "deleting",
                              !.target = {c.b : c \in account.codes}])
  /\ UNCHANGED account
  /\ MfaFrame

\* DeleteAllMFARecoveryCodes ends: once no other transaction holds one of
\* its rows, it deletes those of them that are still there.
MfaDeleted(p) ==
  /\ mfa[p].pc = "deleting"
  /\ ~CodesLocked(p, mfa[p].target)
  /\ SetMfa(p, [mfa[p] EXCEPT
                  !.pc = IF mfa[p].op = "regenerate" THEN "insert" ELSE "commit",
                  !.del = mfa[p].target \cap {c.b : c \in account.codes}])
  /\ UNCHANGED account
  /\ MfaFrame

\* CreateMFARecoveryCodes: recoveryCodeCount rows, one batch.
MfaInsert(p) ==
  /\ mfa[p].pc = "insert"
  /\ account' = [account EXCEPT !.batches = @ + 1]
  /\ SetMfa(p, [mfa[p] EXCEPT !.pc = "commit", !.ins = {account.batches + 1}])
  /\ MfaFrame

\* db.RunTx commits the transaction of enable, disable or regenerate.
MfaCommit(p) ==
  /\ mfa[p].pc = "commit"
  /\ LET r == mfa[p]
         codes == {c \in account.codes : c.b \notin r.del}
                    \cup {[b |-> b, used |-> {}] : b \in r.ins}
     IN  account' =
           CASE r.op = "enable" ->
                  [account EXCEPT !.codes = codes, !.enabled = TRUE,
                                  !.verified = r.user.secret]
             [] r.op = "disable" ->
                  [account EXCEPT !.codes = codes, !.enabled = FALSE,
                                  !.verified = 0,
                                  !.secret = IF account.build.clears THEN 0 ELSE @]
             [] OTHER -> [account EXCEPT !.codes = codes]
  /\ MfaDone(p, "200")
  /\ MfaFrame

\* MarkMFARecoveryCodeAsUsed without used_at IS NULL in its WHERE.
MarkMFARecoveryCodeAsUsed_AnyRow(codes, id) ==
  IF \E c \in codes : c.b = id[1]
    THEN [codes |-> {IF c.b = id[1] THEN [c EXCEPT !.used = @ \cup {id[2]}] ELSE c :
                       c \in codes},
          err |-> OK]
    ELSE [codes |-> codes, err |-> "not found or already used"]

\* MarkMFARecoveryCodeAsUsed: UPDATE ... SET used_at = now() WHERE id = @id
\* AND used_at IS NULL; no row affected is an error.
MarkMFARecoveryCodeAsUsed(codes, id) ==
  IF \E c \in codes : c.b = id[1] /\ id[2] \notin c.used
    THEN [codes |-> {IF c.b = id[1] THEN [c EXCEPT !.used = @ \cup {id[2]}] ELSE c :
                       c \in codes},
          err |-> OK]
    ELSE [codes |-> codes, err |-> "not found or already used"]

\* A call of MarkMFARecoveryCodeAsUsed for code mfa[p].code: one statement,
\* which waits while another transaction holds the row.
MfaMark(p) ==
  /\ mfa[p].pc = "mark"
  /\ ~CodesLocked(p, {mfa[p].code[1]})
  /\ LET r == MarkMFARecoveryCodeAsUsed(account.codes, mfa[p].code)
     IN  /\ account' = [account EXCEPT
                          !.codes = r.codes,
                          !.wins[mfa[p].code] = IF r.err = OK THEN @ + 1 ELSE @]
         /\ MfaDone(p, r.err)
  /\ MfaFrame

InitMfa ==
  /\ tx = [p \in Procs |-> NoTx]
  /\ statuses = {}
  /\ recovery = NoCode
  /\ walk = NoWalk
  /\ artifacts = {}
  /\ versions = {}
  /\ parts = {}
  /\ nextId = 1
  /\ licenses = {}
  /\ now = 0
  /\ pulls = <<>>
  /\ last = NoRequest
  /\ mutableTags = Orgs
  /\ tagLimit = [o \in Orgs |-> NullInt]
  /\ account \in {[NoAccount EXCEPT !.build = b] : b \in Builds}
  /\ mfa = [p \in Procs |-> NoMfaRequest]
  /\ client = NoClient

\* The user's requests to the MFA settings from two sessions, and uses of
\* recovery codes.
NextMfa ==
  \E p \in Procs :
    \/ MfaBegin(p, "setup", <<0, 0>>)
    \/ \E s \in 0..MaxSetups : MfaBegin(p, "enable", <<s, 0>>)
    \/ \E pw \in {0, 1} : MfaBegin(p, "disable", <<pw, 0>>)
    \/ \E pw \in {0, 1} : MfaBegin(p, "regenerate", <<pw, 0>>)
    \/ \E c \in CodeIds : MfaBegin(p, "mark", c)
    \/ MfaRead(p) \/ MfaSetupWrite(p) \/ MfaUpdate(p) \/ MfaDelete(p)
    \/ MfaDeleted(p) \/ MfaInsert(p) \/ MfaCommit(p) \/ MfaMark(p)

SpecMfa == InitMfa /\ [][NextMfa]_vars

\* ------------------------------------------------------------------ agent client

\* HasTokenExpiredAfter: no token, or one whose expiration is before t;
\* limit is the last token expiring before t.
HasTokenExpiredAfter(limit) == client.token = 0 \/ client.token <= limit

HasTokenExpired == HasTokenExpiredAfter(client.stale)

\* Goroutine g moves on as record r, the client's fields changing as in c.
SetCall(g, c, r) == client' = [c EXCEPT !.go[g] = r]

ClientFrame == UNCHANGED <<artifacts, versions, parts, nextId, licenses, now,
                           mutableTags, tagLimit, pulls, last, tx, statuses,
                           recovery, walk, account, mfa>>

\* A goroutine calls doAuthenticated.
doAuthenticated(g) ==
  /\ client.go[g].pc = "idle"
  /\ SetCall(g, client, [NoCall EXCEPT !.pc = "ensure"])
  /\ ClientFrame

\* EnsureToken takes the mutex and checks the token.
EnsureToken(g) ==
  /\ client.go[g].pc = "ensure"
  /\ client.mutex = NULL
  /\ SetCall(g, [client EXCEPT !.mutex = g],
             [client.go[g] EXCEPT !.pc = IF HasTokenExpiredAfter(client.soon)
                                           THEN "login" ELSE "unlock"])
  /\ ClientFrame

\* Login's request: the server issues a token, or the login fails;
\* EnsureToken then returns an error if the token has expired and goes on
\* with the previous token if it is still valid.
Login(g) ==
  /\ client.go[g].pc = "login"
  /\ \/ /\ client.logins < MaxLogins
        /\ SetCall(g, [client EXCEPT !.logins = @ + 1],
                   [client.go[g] EXCEPT !.pc = "rawToken", !.tok = client.logins + 1])
     \/ /\ HasTokenExpired
        /\ SetCall(g, [client EXCEPT !.mutex = NULL],
                   [NoCall EXCEPT !.res = "login failed"])
     \/ /\ ~HasTokenExpired
        /\ SetCall(g, client, [client.go[g] EXCEPT !.pc = "unlock"])
  /\ ClientFrame

\* Login: c.rawToken = loginResponse.Token
LoginRawToken(g) ==
  /\ client.go[g].pc = "rawToken"
  /\ SetCall(g, [client EXCEPT !.rawToken = client.go[g].tok],
             [client.go[g] EXCEPT !.pc = "token"])
  /\ ClientFrame

\* Login: c.token = parsedToken
LoginToken(g) ==
  /\ client.go[g].pc = "token"
  /\ SetCall(g, [client EXCEPT !.token = client.go[g].tok],
             [client.go[g] EXCEPT !.pc = "unlock", !.tok = 0])
  /\ ClientFrame

\* EnsureToken returns nil: the deferred Unlock.
Unlock(g) ==
  /\ client.go[g].pc = "unlock"
  /\ SetCall(g, [client EXCEPT !.mutex = NULL], [client.go[g] EXCEPT !.pc = "header"])
  /\ ClientFrame

\* doAuthenticatedNoRetry: r.Header.Set("Authorization", "Bearer "+c.rawToken)
SetHeader(g) ==
  /\ client.go[g].pc = "header"
  /\ SetCall(g, client, [client.go[g] EXCEPT !.pc = "send", !.bearer = client.rawToken])
  /\ ClientFrame

\* The server answers 401 to an empty or expired bearer token.
Unauthorized(bearer) == bearer = 0 \/ bearer <= client.stale

\* c.do(r): the response; doAuthenticated returns it unless it is the first
\* 401.
Send(g) ==
  /\ client.go[g].pc = "send"
  /\ LET r == client.go[g]
     IN  SetCall(g, client,
                 IF Unauthorized(r.bearer)
                   THEN IF r.retry THEN [NoCall EXCEPT !.res = "401", !.bearer = r.bearer]
                                   ELSE [r EXCEPT !.pc = "clearToken"]
                   ELSE [NoCall EXCEPT !.res = "200", !.bearer = r.bearer])
  /\ ClientFrame

\* ClearToken: c.token = nil
ClearToken(g) ==
  /\ client.go[g].pc = "clearToken"
  /\ SetCall(g, [client EXCEPT !.token = 0], [client.go[g] EXCEPT !.pc = "clearRawToken"])
  /\ ClientFrame

\* ClearToken: c.rawToken = "", and doAuthenticated's second attempt begins.
ClearRawToken(g) ==
  /\ client.go[g].pc = "clearRawToken"
  /\ SetCall(g, [client EXCEPT !.rawToken = 0],
             [client.go[g] EXCEPT !.pc = "ensure", !.retry = TRUE, !.bearer = 0])
  /\ ClientFrame

\* Time passes: the token the client holds comes within 30 seconds of its
\* expiration.
ExpireSoon ==
  /\ client.token > client.soon
  /\ client' = [client EXCEPT !.soon = client.token]
  /\ ClientFrame

\* Time passes: the tokens about to expire expire.
Expire ==
  /\ client.soon > client.stale
  /\ client' = [client EXCEPT !.stale = client.soon]
  /\ ClientFrame

InitClient ==
  /\ tx = [p \in Procs |-> NoTx]
  /\ statuses = {}
  /\ recovery = NoCode
  /\ walk = NoWalk
  /\ artifacts = {}
  /\ versions = {}
  /\ parts = {}
  /\ nextId = 1
  /\ licenses = {}
  /\ now = 0
  /\ pulls = <<>>
  /\ last = NoRequest
  /\ mutableTags = Orgs
  /\ tagLimit = [o \in Orgs |-> NullInt]
  /\ InitAccounts

\* Two goroutines use one client.
NextClient ==
  \/ ExpireSoon
  \/ Expire
  \/ \E g \in Goroutines :
       \/ doAuthenticated(g) \/ EnsureToken(g) \/ Login(g) \/ LoginRawToken(g)
       \/ LoginToken(g) \/ Unlock(g) \/ SetHeader(g) \/ Send(g)
       \/ ClearToken(g) \/ ClearRawToken(g)

SpecClient == InitClient /\ [][NextClient]_vars

\* ------------------------------------------------------------------ concurrency

\* The tenant the concurrent requests are made against, and the artifact
\* of the request with transaction record t.
TxOrg == "o1"
TxArt(t) == <<TxOrg, t.name>>

\* CreateArtifact: INSERT of the artifact row; a second row with the same
\* (organization, name) is a unique violation.
CreateArtifact(db, org, name) ==
  IF <<org, name>> \in db.artifacts
    THEN Result(db, "ErrConflict")
    ELSE Result([db EXCEPT !.artifacts = @ \cup {<<org, name>>}], OK)

\* The response for handler.Delete's error.
DeleteResponse(err) ==
  CASE err = OK -> "Accepted"
    [] err = "ErrNameUnknown" -> "regErrNameUnknown"
    [] err = "ErrManifestUnknown" -> "regErrManifestUnknown"
    [] err = "ErrConflict" -> "regErrConflict"
    [] err = "ErrBadRequest" -> "regErrBadRequest"
    [] OTHER -> "regErrInternal"

\* What the statements of p's transaction read: the committed rows as they
\* are when the statement runs, with the transaction's own writes.
View(p) ==
  [artifacts |-> artifacts \cup tx[p].arts,
   versions |-> (versions \ tx[p].del) \cup tx[p].ins,
   parts |-> {q \in parts : q.vid \notin {v.id : v \in tx[p].del}}
               \cup tx[p].parts,
   nextId |-> nextId]

\* The transaction record t with the writes that turn the committed rows
\* into db.
WithWrites(t, db) ==
  [t EXCEPT !.arts = db.artifacts \ artifacts,
            !.ins = db.versions \ versions,
            !.del = versions \ db.versions,
            !.parts = db.parts \ parts]

\* An INSERT of a unique key waits for another open transaction that wrote
\* a row with that key (inserted it, or deleted it) and has not ended.
ArtifactLocked(p, art) == \E q \in Procs \ {p} : art \in tx[q].arts

VersionLocked(p, art, name) ==
  \E q \in Procs \ {p} : \E v \in tx[q].ins \cup tx[q].del :
     v.art = art /\ v.name = name

\* The reference of the Put the transaction is in: handlePut's first Put
\* stores the manifest under its digest, the second under the target.
PutReference(t) == IF t.k = 1 THEN t.digest ELSE t.ref

\* The Put the transaction is in returns err: a failed Put's own writes are
\* undone, and handlePut goes on to its second Put or to the end of its
\* transaction.
PutReturns(t, err, why) ==
  LET kept == IF err = OK \/ (t.k = 2 /\ t.e1 = OK) THEN t
              ELSE [t EXCEPT !.arts = {}, !.ins = {}, !.del = {}, !.parts = {}]
      noted == IF err = OK THEN kept ELSE [kept EXCEPT !.why = why]
  IN  IF t.k = 1
        THEN [noted EXCEPT !.e1 = err, !.k = 2, !.pc = "artifact"]
        ELSE [noted EXCEPT !.e2 = err, !.pc = "commit"]

\* Process p's transaction record becomes t.
SetTx(p, t) == tx' = [tx EXCEPT ![p] = t]

TxFrame == UNCHANGED <<licenses, now, mutableTags, tagLimit, pulls, last,
                       statuses, recovery, walk, accounts>>

StoreFrame == UNCHANGED <<artifacts, versions, parts>>

\* A request arrives and opens its transaction; the requests open at the
\* same time are marked as concurrent.
Begin(p, op, name, ref, digest) ==
  /\ tx[p].pc = "idle"
  /\ op = "PUT" =>
       nextId + 2 * (1 + Cardinality({q \in Procs : tx[q].pc # "idle" /\ tx[q].op = "PUT"}))
         <= MaxTxVersionId + 1
  /\ tx' = [q \in Procs |->
              IF q = p
                THEN [NoTx EXCEPT
                        !.pc = IF op = "PUT" THEN "artifact" ELSE "find",
                        !.op = op, !.name = name, !.ref = ref, !.digest = digest, !.k = 1,
                        !.conc = \E o \in Procs \ {p} : tx[o].pc # "idle"]
                ELSE [tx[q] EXCEPT !.conc = @ \/ tx[q].pc # "idle"]]
  /\ UNCHANGED nextId
  /\ StoreFrame /\ TxFrame

\* GetOrCreateArtifact, its SELECT.
TxArtifact(p) ==
  /\ tx[p].pc = "artifact"
  /\ LET found == GetArtifactByName(View(p), TxOrg, tx[p].name) # {}
     IN  SetTx(p, [tx[p] EXCEPT !.found = found,
                                !.pc = IF found THEN "version" ELSE "create"])
  /\ UNCHANGED nextId
  /\ StoreFrame /\ TxFrame

\* GetOrCreateArtifact, its CreateArtifact after a SELECT without a row.
TxCreate(p) ==
  /\ tx[p].pc = "create"
  /\ ~ArtifactLocked(p, TxArt(tx[p]))
  /\ LET r == CreateArtifact(View(p), TxOrg, tx[p].name)
     IN  SetTx(p, IF r.err # OK
                    THEN PutReturns(tx[p], r.err, "Artifact")
                    ELSE [WithWrites(tx[p], r.db) EXCEPT !.pc = "version"])
  /\ UNCHANGED nextId
  /\ StoreFrame /\ TxFrame

\* handler.Put, its GetArtifactVersion and what it decides on the row found.
TxVersion(p) ==
  /\ tx[p].pc = "version"
  /\ LET reference == PutReference(tx[p])
         found == GetArtifactVersion(View(p), TxOrg, tx[p].name, reference)
     IN  SetTx(p,
           IF found = {} THEN [tx[p] EXCEPT !.pc = "quota"]
           ELSE IF (CHOOSE v \in found : TRUE).digest = reference
             THEN PutReturns(tx[p], OK, NULL)
           ELSE IF TxOrg \notin mutableTags
             THEN PutReturns(tx[p], "ErrTagAlreadyExists", "ArtifactVersion")
           ELSE [tx[p] EXCEPT !.pc = "delete"])
  /\ UNCHANGED nextId
  /\ StoreFrame /\ TxFrame

\* The rows EnsureArtifactTagLimitForInsert counts.
CountedRows(db, org) ==
  {v \in db.versions :
     v.art \in db.artifacts /\ v.art[1] = org /\ ~isDigestName(v.name)}

\* handler.Put, its EnsureArtifactTagLimitForInsert; seen keeps the number
\* of rows the check counted.
TxQuota(p) ==
  /\ tx[p].pc = "quota"
  /\ SetTx(p, IF EnsureArtifactTagLimitForInsert(View(p), TxOrg)
                THEN [tx[p] EXCEPT !.pc = "insert",
                        !.seen = Cardinality(CountedRows(View(p), TxOrg))]
                ELSE PutReturns(tx[p], "ErrQuotaExceeded", "Quota"))
  /\ UNCHANGED nextId
  /\ StoreFrame /\ TxFrame

\* handler.Put, its DeleteArtifactVersion of the row the tag named.
TxDelete(p) ==
  /\ tx[p].pc = "delete"
  /\ ~VersionLocked(p, TxArt(tx[p]), PutReference(tx[p]))
  /\ LET r == DeleteArtifactVersion(View(p), TxArt(tx[p]), PutReference(tx[p]))
     IN  SetTx(p, IF r.err # OK
                    THEN PutReturns(tx[p], r.err, "ArtifactVersion")
                    ELSE [WithWrites(tx[p], r.db) EXCEPT !.pc = "insert"])
  /\ UNCHANGED nextId
  /\ StoreFrame /\ TxFrame

\* handler.Put, its CreateArtifactVersion and CreateArtifactVersionPart; the
\* id comes from a sequence, which no rollback winds back.
TxInsert(p) ==
  /\ tx[p].pc = "insert"
  /\ ~VersionLocked(p, TxArt(tx[p]), PutReference(tx[p]))
  /\ LET r == PutInsert(View(p), TxArt(tx[p]), PutReference(tx[p]), tx[p].digest, "none")
     IN  /\ SetTx(p, IF r.err # OK
                       THEN PutReturns(tx[p], r.err, "ArtifactVersion")
                       ELSE PutReturns(WithWrites(tx[p], r.db), OK, NULL))
         /\ nextId' = r.db.nextId
  /\ StoreFrame /\ TxFrame

\* handler.Delete up to its license check: the artifact, the row of the tag
\* and the rows that share its digest.
TxFind(p) ==
  /\ tx[p].pc = "find"
  /\ LET found == GetArtifactVersionByTag(View(p), TxArt(tx[p]), tx[p].ref)
         err == IF GetArtifactByName(View(p), TxOrg, tx[p].name) = {}
                  THEN "ErrNameUnknown"
                ELSE IF found = {} THEN "ErrManifestUnknown"
                ELSE LET version == CHOOSE v \in found : TRUE
                     IN  CheckArtifactVersionDeletionForLicenses(TxArt(tx[p]), version,
                           GetArtifactVersionsByDigest(View(p), TxArt(tx[p]), version.digest))
     IN  SetTx(p, IF err = OK THEN [tx[p] EXCEPT !.pc = "islast"]
                  ELSE [tx[p] EXCEPT !.e1 = err, !.pc = "commit"])
  /\ UNCHANGED nextId
  /\ StoreFrame /\ TxFrame

\* handler.Delete, its IsLastTagOfArtifact.
TxIsLast(p) ==
  /\ tx[p].pc = "islast"
  /\ SetTx(p, IF IsLastTagOfArtifact(View(p), TxArt(tx[p]))
                THEN [tx[p] EXCEPT !.e1 = "ErrConflict", !.why = "LastTag",
                                   !.pc = "commit"]
                ELSE [tx[p] EXCEPT !.pc = "remove"])
  /\ UNCHANGED nextId
  /\ StoreFrame /\ TxFrame

\* handler.Delete, its DeleteArtifactVersion.
TxRemove(p) ==
  /\ tx[p].pc = "remove"
  /\ ~VersionLocked(p, TxArt(tx[p]), tx[p].ref)
  /\ LET r == DeleteArtifactVersion(View(p), TxArt(tx[p]), tx[p].ref)
     IN  SetTx(p, [(IF r.err = OK THEN WithWrites(tx[p], r.db) ELSE tx[p])
                     EXCEPT !.e1 = r.err, !.pc = "commit"])
  /\ UNCHANGED nextId
  /\ StoreFrame /\ TxFrame

\* The end of the request's transaction: its writes are committed if the
\* function it ran returned no error and undone otherwise; the response is
\* kept with the request.
TxCommit(p) ==
  /\ tx[p].pc = "commit"
  /\ LET t == tx[p]
         res == IF t.op = "PUT" THEN PutResponse(t.e1, t.e2)
                ELSE DeleteResponse(t.e1)
         ok == res \in {"Created", "Accepted"}
         db == View(p)
     IN  /\ artifacts' = IF ok THEN db.artifacts ELSE artifacts
         /\ versions' = IF ok THEN db.versions ELSE versions
         /\ parts' = IF ok THEN db.parts ELSE parts
         /\ SetTx(p, [t EXCEPT !.pc = "idle", !.res = res, !.arts = {},
                               !.ins = {}, !.del = {}, !.parts = {}])
  /\ UNCHANGED nextId
  /\ TxFrame

\* Tag limits of the concurrent requests: none, and a limit of one tag.
TxTagLimits == {NullInt, 1}

InitConc ==
  /\ InitStore
  /\ mutableTags = Orgs
  /\ tagLimit \in {[o \in Orgs |-> l] : l \in TxTagLimits}

\* Two request handlers whose statements interleave: pushes and tag deletes
\* against one repository, and one push to another repository of the tenant.
NextConc ==
  \E p \in Procs :
    \/ \E t \in Tags, d \in Digests : Begin(p, "PUT", "a1", t, d)
    \/ p = "p2" /\ Begin(p, "PUT", "a2", "t1", "sha256:d1")
    \/ \E t \in Tags : Begin(p, "DELETE", "a1", t, NULL)
    \/ TxArtifact(p)
    \/ TxCreate(p)
    \/ TxVersion(p)
    \/ TxQuota(p)
    \/ TxDelete(p)
    \/ TxInsert(p)
    \/ TxFind(p)
    \/ TxIsLast(p)
    \/ TxRemove(p)
    \/ TxCommit(p)

SpecConc == InitConc /\ [][NextConc]_vars

\* ------------------------------------------------------------------ claims

\* The rows of an artifact in a set of version rows, by name and digest.
NamedRows(vs, art) == {<<v.name, v.digest>> : v \in {w \in vs : w.art = art}}

LastArt == <<last.org, last.name>>

\* The last request was a push under a tag.
TagPush == last.op = "PUT" /\ last.ref \in Tags

\* Before the last request, its reference named a row with digest d.
ExistedWith(d) ==
  \E v \in last.pre.versions :
     v.art = LastArt /\ v.name = last.ref /\ v.digest = d

C2_IdempotentPush ==
  (TagPush /\ last.fault = "none" /\ ExistedWith(last.digest)) =>
    /\ last.res = "Created"
    /\ NamedRows(versions, LastArt) = NamedRows(last.pre.versions, LastArt)

\* C3 as stated: without the mutable-tags feature, a push of another
\* manifest under an existing tag fails with the tag-already-exists conflict
\* and leaves the version rows as they were.
C3_ImmutableTag ==
  (/\ TagPush
   /\ last.fault = "none"
   /\ last.org \notin mutableTags
   /\ \E d \in Digests \ {last.digest} : ExistedWith(d)) =>
    /\ last.res = "regErrTagAlreadyExists"
    /\ versions = last.pre.versions

\* C4: a push that fails, for whatever reason, leaves the Artifact,
\* ArtifactVersion and ArtifactVersionPart rows as they were before it.
C4_AllOrNothing ==
  (last.op = "PUT" /\ last.res # "Created") =>
    /\ artifacts = last.pre.artifacts
    /\ versions = last.pre.versions
    /\ parts = last.pre.parts

\* A push into an artifact that did not exist yet whose first part insert
\* fails, after the artifact row and both version rows were written.
C4_Witness ==
  /\ last.op = "PUT" /\ last.ref \in Tags
  /\ last.fault = "part" /\ last.res = "regErrInternal"
  /\ LastArt \notin artifacts
  /\ versions # {}

\* The tag rows of an artifact in a set of version rows.
TagRows(vs, art) == {v \in vs : v.art = art /\ v.name \in Tags}

\* C5 as stated: deleting the only remaining tag of an artifact fails with
\* the conflict kind whatever licenses exist, and the tag row remains.
C5_LastTagGuard ==
  (/\ last.op = "DELETE"
   /\ \E v \in TagRows(last.pre.versions, LastArt) :
        TagRows(last.pre.versions, LastArt) = {v} /\ v.name = last.ref) =>
    /\ last.res = "regErrConflict"
    /\ versions = last.pre.versions

\* C6: no DELETE removes a row named by a digest. A digest-form reference
\* is refused with no row changed; a tag-form reference removes at most the
\* row of that tag in that artifact and changes no other row.
C6_DeleteFrame ==
  last.op = "DELETE" =>
    /\ digestParse(last.ref) =>
         last.res = "regErrBadRequest" /\ versions = last.pre.versions
    /\ versions \subseteq last.pre.versions
    /\ \A v \in last.pre.versions \ versions :
         v.art = LastArt /\ v.name = last.ref /\ v.name \in Tags
    /\ Cardinality(last.pre.versions \ versions) <= 1
    /\ artifacts = last.pre.artifacts

\* A tag delete that went through and left the row named by the tag's
\* digest, and another tag, in place.
C6_Witness ==
  /\ last.op = "DELETE" /\ last.res = "Accepted"
  /\ \E v \in last.pre.versions \ versions :
       \E c \in versions : c.art = v.art /\ c.name = v.digest
  /\ TagRows(versions, LastArt) # {}

\* ------------------------------------------------------------------ license claims

\* The manifest license check and the blob license check of customer c.
Authorized(c, art, reference) ==
  CheckLicenseForArtifact(art[1], art[2], reference, c, CustomerOrg(c)) = OK

AuthorizedBlob(c, digest) ==
  CheckLicenseForArtifactBlob(digest, c, CustomerOrg(c)) = OK

\* The repositories of customer c's vendor organization.
ReposOf(c) == {r \in Repos : r[1] = CustomerOrg(c)}

\* The digests the manifest with digest d lists as parts, as stored.
PartDigests(d) ==
  {p.blob : p \in {q \in parts : \E v \in versions : v.id = q.vid /\ v.digest = d}}

\* The digests the manifest with digest d references, directly or through
\* manifests that are parts (seen: the digests already on the path).
RECURSIVE ReferencedFrom(_, _)
ReferencedFrom(d, seen) ==
  PartDigests(d) \cup
    UNION {ReferencedFrom(p, seen \cup {d}) : p \in PartDigests(d) \ (seen \cup {d})}

\* Customer c holds an unexpired license for version row v: for v's whole
\* artifact or pinned to v.
Licensed(c, v) ==
  \E l \in licenses :
     /\ l.cust = c
     /\ l.exp = NullInt \/ now < l.exp
     /\ l.art = v.art
     /\ l.ver \in {NullInt, v.id}

\* The digest-equivalence set of a reference of an artifact.
EquivalenceSet(art, reference) ==
  {v \in versions :
     /\ v.art = art
     /\ \E t \in versions :
          t.art = art /\ t.digest = v.digest /\ reference \in {t.name, t.digest}}

\* C7: while the tenant has no license at all, the license checks let every
\* customer of the tenant read every reference of every artifact and every
\* blob.
C7_OpenWithoutLicenses ==
  \A c \in Customers :
     (\A l \in licenses : l.org # CustomerOrg(c)) =>
       /\ \A r \in ReposOf(c), t \in References : Authorized(c, r, t)
       /\ \A b \in Digests \cup Blobs : AuthorizedBlob(c, b)

\* A license check answered while another tenant has a license, this one
\* has none, and versions are stored.
C7_Witness ==
  /\ last.op \in {"AUTHZ", "AUTHZBLOB"} /\ last.res = OK
  /\ licenses # {}
  /\ \A l \in licenses : l.org # "o1"
  /\ versions # {}

\* C8 as stated, for the references that name a version: in a tenant with a
\* license, a customer is authorized for a reference exactly when it holds
\* an unexpired license for the whole artifact or for a version of the
\* reference's digest-equivalence set.
C8_Original ==
  \A c \in Customers :
     HasAnyArtifactLicense(CustomerOrg(c)) =>
       \A r \in ReposOf(c), t \in References :
          EquivalenceSet(r, t) # {} =>
           (Authorized(c, r, t) <=>
            \E l \in licenses :
               /\ l.cust = c
               /\ l.exp = NullInt \/ now < l.exp
               /\ l.art = r
               /\ \/ l.ver = NullInt
                  \/ \E v \in EquivalenceSet(r, t) : l.ver = v.id)

\* C8 (amended): in a tenant with a license, a customer is authorized for a
\* reference exactly when it holds an unexpired license, for the whole
\* artifact or pinned, that covers a version row of the reference's
\* digest-equivalence set or a version row, of any artifact, whose manifest
\* references the reference's digest as a part, directly or transitively. A
\* reference that names no version is denied, and so is every customer
\* without such a license, on every artifact of the tenant.
C8_EnforcedMode ==
  \A c \in Customers :
     HasAnyArtifactLicense(CustomerOrg(c)) =>
       \A r \in ReposOf(c), t \in References :
          Authorized(c, r, t) <=>
            \E e \in EquivalenceSet(r, t) :
               \E v \in versions :
                  /\ v = e \/ e.digest \in ReferencedFrom(v.digest, {})
                  /\ Licensed(c, v)

\* A license check that granted access through a license pinned to a
\* version that references the requested digest as a part, while the
\* customer holds no license in the artifact of the reference.
C8_Witness ==
  /\ last.op = "AUTHZ" /\ last.res = OK
  /\ \E c \in Customers, r \in Repos, t \in References :
       /\ CustomerOrg(c) = r[1]
       /\ Authorized(c, r, t)
       /\ \A e \in EquivalenceSet(r, t) : ~Licensed(c, e)
       /\ \A l \in licenses : l.ver # NullInt
  /\ \E c \in Customers, r \in Repos :
       CustomerOrg(c) = r[1] /\ \A t \in References : ~Authorized(c, r, t)

\* Every license of customer c has passed its expiry.
AllExpired(c) ==
  \A l \in licenses : l.cust = c => (l.exp # NullInt /\ l.exp <= now)

\* C9: in a tenant with a license, a customer whose licenses have all
\* expired is denied by the manifest check and by the blob check.
C9_ExpiredDenied ==
  \A c \in Customers :
     (HasAnyArtifactLicense(CustomerOrg(c)) /\ AllExpired(c)) =>
       /\ \A r \in ReposOf(c), t \in References : ~Authorized(c, r, t)
       /\ \A b \in Digests \cup Blobs : ~AuthorizedBlob(c, b)

\* A denied license check while the customer's license for a whole artifact
\* with versions has expired.
C9_Witness ==
  /\ last.op \in {"AUTHZ", "AUTHZBLOB"} /\ last.res = "ErrForbidden"
  /\ \E l \in licenses :
       /\ l.exp # NullInt /\ l.exp <= now
       /\ AllExpired(l.cust)
       /\ \E v \in versions : v.art = l.art

\* C10: in a tenant with a license, the blob check grants customer c blob b
\* exactly when an unexpired license of c covers a version row whose
\* manifest references b as a part, directly or transitively (rows with the
\* same digest reference the same parts).
C10_BlobCheck ==
  \A c \in Customers :
     HasAnyArtifactLicense(CustomerOrg(c)) =>
       \A b \in Digests \cup Blobs :
          AuthorizedBlob(c, b) <=>
            \E v \in versions :
               b \in ReferencedFrom(v.digest, {}) /\ Licensed(c, v)

\* A granted blob check for a blob that the licensed version references
\* only through a nested manifest, with a license pinned to a tag row.
C10_Witness ==
  /\ last.op = "AUTHZBLOB" /\ last.res = OK
  /\ \E c \in Customers, v \in versions :
       /\ AuthorizedBlob(c, "sha256:b1")
       /\ \A l \in licenses : l.cust = c /\ l.ver = v.id
       /\ v.name \in Tags
       /\ "sha256:b1" \in ReferencedFrom(v.digest, {}) \ PartDigests(v.digest)

\* ------------------------------------------------------------------ delete and quota claims

\* The row the last request's reference named before the request.
PreTagRows == {v \in last.pre.versions : v.art = LastArt /\ v.name = last.ref}

\* A license is pinned to the row named by digest d of the last request's
\* artifact.
DigestPinned(d) ==
  \E v \in last.pre.versions, l \in licenses :
     v.art = LastArt /\ v.name = d /\ v.digest = d /\ l.ver = v.id

\* Another tag of the last request's artifact carried digest d.
OtherTagAliases(d) ==
  \E v \in TagRows(last.pre.versions, LastArt) :
     v.name # last.ref /\ v.digest = d

\* A license for the whole artifact of the last request.
EntireArtifactLicense == \E l \in licenses : l.art = LastArt /\ l.ver = NullInt

QuotaCount ==
  Cardinality({v \in last.pre.versions : v.art[1] = last.org /\ v.name \in Tags})

\* The last request was a push, without a storage failure, of a tag its
\* artifact did not have.
NewTagPush == TagPush /\ last.fault = "none" /\ PreTagRows = {}

\* C12 as stated: when the number of tags counted against the quota equals
\* the tenant's configured limit, whatever the limit, the push of a new tag
\* fails with quota-exceeded and adds no rows.
C12_QuotaAtLimit ==
  (NewTagPush /\ tagLimit[last.org] # NullInt /\ QuotaCount = tagLimit[last.org]) =>
    /\ last.res = "regErrDeniedQuotaExceeded"
    /\ versions = last.pre.versions
    /\ artifacts = last.pre.artifacts

\* The tags of an organization counted against its quota in a set of rows.
QuotaCountIn(vs, org) ==
  Cardinality({v \in vs : v.art[1] = org /\ v.name \in Tags})

\* C13 as stated: a push that creates no new tag, under a digest-form
\* reference or under a tag the artifact already has, is never rejected with
\* quota-exceeded and leaves the number of tags counted against the quota
\* as it was.
C13_NoQuotaWithoutNewTag ==
  (/\ last.op = "PUT"
   /\ last.fault = "none"
   /\ last.ref \in Digests \/ PreTagRows # {}) =>
    /\ last.res # "regErrDeniedQuotaExceeded"
    /\ QuotaCountIn(versions, last.org) = QuotaCountIn(last.pre.versions, last.org)

\* The tag rows of the last request's artifact before the request.
ArtifactTagCount == Cardinality(TagRows(last.pre.versions, LastArt))

RECURSIVE TotalSize(_)
TotalSize(S) ==
  IF S = {} THEN 0
  ELSE LET b == CHOOSE x \in S : TRUE IN BlobSize(b) + TotalSize(S \ {b})

\* C15 as stated: the aggregated size of a version is the size of its own
\* manifest plus the size of every blob reachable through the parts graph,
\* each distinct blob digest counted once, whatever the paths that lead to
\* it and whatever the pulls recorded.
C15_AggregateSize ==
  (last.op = "ARTIFACT" /\ last.res = "StatusOK") =>
    \A i \in DOMAIN last.out :
       last.out[i].size
         = BlobSize(last.out[i].digest)
             + TotalSize(ReferencedFrom(last.out[i].digest, {}))

\* The elements of a sequence.
Range(seq) == {seq[i] : i \in DOMAIN seq}

\* The manifests of an artifact visible to a caller: the digests of its
\* rows named by a digest that a tag of the artifact carries and, for a
\* customer organization, that its licenses cover.
VisibleDigests(art, who) ==
  {v.digest : v \in {av \in versions :
     /\ av.art = art
     /\ av.name = av.digest
     /\ \E t \in TagRows(versions, art) : t.digest = av.digest
     /\ who = NULL \/ VersionLicensed(av, art, who)}}

ManifestGet == last.op = "GET"

\* The pull row of the last request: the principal and the row its
\* reference names.
PullRowOfLast ==
  [vid |-> Get(last.org, last.name, last.ref).id, who |-> last.cust,
   at |-> now]

\* C17 as stated: every successful GET of a manifest records exactly one
\* pull for the requesting principal; a GET that fails records none.
C17_Original ==
  ManifestGet =>
    IF last.res = "StatusOK"
      THEN pulls = Append(last.log, PullRowOfLast)
      ELSE pulls = last.log

\* C17 (amended): a successful GET of a manifest records exactly one pull,
\* for the requesting principal and the row the reference names, when the
\* audit write succeeds, and none when the audit write fails (the GET still
\* succeeds); a GET that fails records none.
C17_PullAudit ==
  ManifestGet =>
    IF last.res = "StatusOK" /\ last.fault = "none"
      THEN pulls = Append(last.log, PullRowOfLast)
      ELSE pulls = last.log

\* A successful GET by customer c1 whose pull was recorded after a pull of
\* the vendor.
C17_Witness ==
  /\ ManifestGet /\ last.res = "StatusOK" /\ last.fault = "none"
  /\ last.cust = "c1"
  /\ Len(pulls) = 2
  /\ pulls[1].who = NULL /\ pulls[2] = PullRowOfLast

\* C18 as stated: a GET or HEAD that is let through for a reference that
\* names no row answers manifest-unknown when the repository exists and
\* name-unknown when it does not.
C18_NotFoundKinds ==
  (/\ last.op \in {"GET", "HEAD"}
   /\ last.res # "regErrDenied"
   /\ GetArtifactVersion(Store, last.org, last.name, last.ref) = {}) =>
    IF LastArt \in artifacts
      THEN last.res = "regErrManifestUnknown"
      ELSE last.res = "regErrNameUnknown"

\* The whole tag listing of the last request's repository for its caller.
FullTagListing ==
  FlattenTags(GetVersionsForArtifact(LastArt, last.cust))

\* C19 as stated: a successful GET tags/list with limit n and cursor last
\* returns at most n tags, and only tags that come after the cursor in the
\* listing order.
C19_TagsPagination ==
  (last.op = "TAGS" /\ last.res = "StatusOK") =>
    /\ Len(last.out) <= last.n
    /\ last.ref \in Range(FullTagListing) =>
         \A k \in DOMAIN last.out :
            \E i, j \in DOMAIN FullTagListing :
               /\ i < j
               /\ FullTagListing[i] = last.ref
               /\ FullTagListing[j] = last.out[k]

C24_LicenseRefusalIsConflict ==
  (/\ last.op = "DELETE" /\ last.ref \in Tags
   /\ \E v \in PreTagRows :
        \/ DigestPinned(v.digest) /\ ~OtherTagAliases(v.digest)
        \/ EntireArtifactLicense
        \/ \E l \in licenses : l.ver = v.id) =>
    last.res = "regErrConflict"

\* Both requests have ended, were requests of that kind and ran at the same
\* time.
BothRan(op) ==
  \A p \in Procs : tx[p].pc = "idle" /\ tx[p].op = op /\ tx[p].conc

\* The rows of the artifact of p's request with that name.
TxRows(p, name) == {v \in versions : v.art = TxArt(tx[p]) /\ v.name = name}

\* C21 as stated: when two pushes of the same manifest digest to the same
\* artifact run concurrently, both succeed, exactly one canonical row of
\* the digest exists afterwards, and a tag they share names one row, with
\* that digest.
C21_ConcurrentSameDigest ==
  (/\ BothRan("PUT")
   /\ tx["p1"].name = tx["p2"].name
   /\ tx["p1"].digest = tx["p2"].digest) =>
    /\ \A p \in Procs : tx[p].res = "Created"
    /\ Cardinality(TxRows("p1", tx["p1"].digest)) = 1
    /\ tx["p1"].ref = tx["p2"].ref =>
         /\ Cardinality(TxRows("p1", tx["p1"].ref)) = 1
         /\ \A v \in TxRows("p1", tx["p1"].ref) : v.digest = tx["p1"].digest

\* C22: the tag quota is no invariant under concurrency. The tenant's tag
\* count can come to exceed its limit, and the step that takes it above the
\* limit is the commit of a push of a new tag that ran at the same time as
\* another request and whose count check counted fewer tags than the tenant
\* has when the push commits.
C22_QuotaRace ==
  [][(/\ tagLimit[TxOrg] # NullInt
      /\ QuotaCountIn(versions, TxOrg) <= tagLimit[TxOrg]
      /\ QuotaCountIn(versions', TxOrg) > tagLimit[TxOrg]) =>
       \E p \in Procs :
          /\ tx[p].pc = "commit" /\ tx[p].op = "PUT"
          /\ tx'[p].res = "Created"
          /\ tx[p].conc
          /\ tx[p].seen < QuotaCountIn(versions, TxOrg)]_vars

\* Two pushes that ran at the same time have both been Created and the
\* tenant has more tags than its limit.
C22_Witness ==
  /\ BothRan("PUT")
  /\ \A p \in Procs : tx[p].res = "Created"
  /\ tagLimit[TxOrg] # NullInt
  /\ QuotaCountIn(versions, TxOrg) > tagLimit[TxOrg]

\* C29 as stated: GetOrCreateArtifact is an idempotent insert-or-fetch. No
\* push, run alone or at the same time as another push to the same new
\* artifact, fails because the artifact row already exists, and a push that
\* was Created leaves the artifact row in the store.
C29_InsertOrFetch ==
  \A p \in Procs :
    (tx[p].pc = "idle" /\ tx[p].op = "PUT") =>
      /\ tx[p].why # "Artifact"
      /\ tx[p].res = "Created" => TxArt(tx[p]) \in artifacts

\* C30 as stated: an artifact that has a tag keeps at least one tag in
\* every step, also when two deletes of its two tags run at the same time,
\* each in its own transaction.
C30_KeepsATag ==
  [][\A a \in artifacts :
       TagRows(versions, a) # {} => TagRows(versions', a) # {}]_vars

\* The pull rows (by position in the log) a query with the filter of the
\* last request is to return: those of the tenant made at a time t with
\* after <= t < before that match every equality filter supplied.
PullsInWindow ==
  LET f == last.filter
  IN  {i \in DOMAIN pulls :
         \E v \in versions :
            /\ v.id = pulls[i].vid
            /\ v.art[1] = f.org
            /\ f.after # NullInt => f.after <= pulls[i].at
            /\ pulls[i].at < f.before
            /\ f.cust # NULL => pulls[i].who = f.cust
            /\ f.art # NoArtifact => v.art = f.art
            /\ f.ver # NullInt => v.id = f.ver}

\* C23 as stated: a query of the pulls returns exactly the rows of the
\* tenant in the window after <= t < before that match every supplied
\* equality filter, newest first, cut to the row cap.
C23_QueryPulls ==
  last.op = "PULLS" =>
    LET I == PullsInWindow
        out == last.out
        cap == last.filter.count
    IN  /\ Len(out) = IF Cardinality(I) < cap THEN Cardinality(I) ELSE cap
        /\ \E s \in [DOMAIN out -> I] :
             /\ \A j, k \in DOMAIN out : j # k => s[j] # s[k]
             /\ \A j \in DOMAIN out : out[j] = pulls[s[j]]
             /\ \A j \in DOMAIN out : \A i \in I :
                  (\A k \in DOMAIN out : s[k] # i) => pulls[i].at <= out[j].at
        /\ \A j, k \in DOMAIN out : j < k => out[j].at >= out[k].at

\* C25: a cleanup with a configured age deletes every status entry older
\* than that age but the newest entries of each deployment, newest among
\* the entries of all revisions of the deployment, and deletes nothing else.
C25_CleanupKeepsNewest ==
  (last.op = "CLEANUP" /\ last.n # NullInt) =>
    LET newest(s) == \A o \in last.was :
                        DeploymentOf(o.rev) = DeploymentOf(s.rev) => o.at <= s.at
    IN  statuses = {s \in last.was : ~(now - s.at > last.n) \/ newest(s)}

\* A cleanup has kept the newest entry of a deployment, older than the age,
\* and deleted the latest entry of another revision of that deployment.
C25_Witness ==
  /\ last.op = "CLEANUP" /\ last.n # NullInt
  /\ \E s \in statuses :
       /\ now - s.at > last.n
       /\ \E d \in last.was \ statuses :
            /\ d.rev # s.rev
            /\ DeploymentOf(d.rev) = DeploymentOf(s.rev)
            /\ \A o \in last.was : o.rev = d.rev => o.at <= d.at

\* C26: for every recovery code c of 10 lowercase hex characters,
\* NormalizeRecoveryCode(FormatRecoveryCode(c)) = c.
C26_FormatRoundTrip ==
  (/\ recovery.stage = "normalized"
   /\ Len(recovery.code) = 10
   /\ \A i \in DOMAIN recovery.code : recovery.code[i] \in HexLower) =>
    recovery.normalized = recovery.code

\* A code of 10 lowercase hex characters that was formatted with the
\* separator after the fifth character and normalized again.
C26_Witness ==
  /\ recovery.stage = "normalized"
  /\ Len(recovery.code) = 10
  /\ \A i \in DOMAIN recovery.code : recovery.code[i] \in HexLower
  /\ Len(recovery.formatted) = 11 /\ recovery.formatted[6] = "-"
  /\ Len(recovery.normalized) = 10


\* The routes the authorizer guards.
Guarded == Methods \cup {"TAGS", "REFERRERS"}

ExistedWithOther == \E v \in last.pre.versions :
                       v.art = LastArt /\ v.name = last.ref /\ v.digest # last.digest

\* C31: with the mutable-tags feature, a push of digest D under a tag T that
\* carries another digest succeeds, and afterwards the artifact has exactly
\* one row named T, carrying D, and rows named by the old and by the new
\* digest.
C31_TagMoves ==
  (/\ TagPush /\ last.fault = "none"
   /\ last.org \in mutableTags
   /\ ExistedWithOther) =>
    /\ last.res = "Created"
    /\ \A v \in versions : (v.art = LastArt /\ v.name = last.ref) => v.digest = last.digest
    /\ Cardinality({v \in versions : v.art = LastArt /\ v.name = last.ref}) = 1
    /\ \A old \in {w \in last.pre.versions : w.art = LastArt /\ w.name = last.ref} :
         \E c \in versions : c.art = LastArt /\ c.name = old.digest /\ c.digest = old.digest
    /\ \E c \in versions : c.art = LastArt /\ c.name = last.digest /\ c.digest = last.digest

C33_QuotaUpToLimit ==
  (/\ NewTagPush
   /\ tagLimit[last.org] # NullInt
   /\ QuotaCount + 1 <= tagLimit[last.org]) =>
    last.res # "regErrDeniedQuotaExceeded"

PinnedTo(c, v) ==
  \E l \in licenses :
     /\ l.cust = c /\ l.art = v.art /\ l.ver = v.id
     /\ l.exp = NullInt \/ now < l.exp

\* The tags a tag listing of artifact art shows customer c.
TagsShown(art, c) == Range(ListTags(art[1], art[2], c, 0, NULL).out)

LicenseAdded(c, b) ==
  \E l \in licenses' \ licenses :
     licenses' = licenses \cup {l} /\ l.cust = c /\ l.art = b

\* Some version of artifact b has a manifest that references, directly or
\* through nested manifests, the digest that reference t of artifact a
\* resolves to.
ReferencesFrom(b, a, t) ==
  \E v \in versions, e \in EquivalenceSet(a, t) :
     v.art = b /\ e.digest \in ReferencedFrom(v.digest, {})

\* C36 as stated: a license of the customer for another artifact B does not
\* change what the manifest license check answers for the references of
\* artifact A.
C36_Original ==
  [][\A a \in Repos, b \in Repos, t \in References \cup {OuterIndex} :
       (a # b /\ LicenseAdded("c1", b)) =>
         (Authorized("c1", a, t))' = Authorized("c1", a, t)]_vars

\* C36 (amended): in a tenant that already has a license, a license of the
\* customer for another artifact B does not change what the manifest
\* license check answers for a reference of artifact A, unless B holds a
\* version whose manifest references the reference's digest as a part.
C36_OtherArtifactLicense ==
  [][\A a \in Repos, b \in Repos, t \in References \cup {OuterIndex} :
       (/\ a # b /\ LicenseAdded("c1", b)
        /\ HasAnyArtifactLicense("o1")
        /\ ~ReferencesFrom(b, a, t)) =>
         (Authorized("c1", a, t))' = Authorized("c1", a, t)]_vars

\* The tenant had a license, the customer got one for o1/a2, which holds a
\* version, and is still refused tag t1 of o1/a1.
C36_Witness ==
  /\ last.op = "LICENSE" /\ last.cust = "c1"
  /\ LastArt = <<"o1", "a2">>
  /\ Cardinality(licenses) = 2
  /\ \E v \in versions : v.art = LastArt
  /\ ~ReferencesFrom(LastArt, <<"o1", "a1">>, "t1")
  /\ ~Authorized("c1", <<"o1", "a1">>, "t1")

\* C37: a recovery code is consumed at most once. A call of
\* MarkMFARecoveryCodeAsUsed for a code whose row is there and unused
\* succeeds, marks the row and is the only call that ever succeeds for this
\* code; any other call returns an error and leaves the user's rows as
\* they were, whether the calls follow one another or wait on each other.
C37_ConsumedOnce ==
  [][\A p \in Procs :
       (mfa[p].pc = "mark" /\ mfa'[p].pc = "idle") =>
         LET id == mfa[p].code
             unused == \E c \in account.codes : c.b = id[1] /\ id[2] \notin c.used
         IN  /\ unused =>
                  /\ mfa'[p].res = OK
                  /\ account'.wins[id] = 1
                  /\ \E c \in account'.codes : c.b = id[1] /\ id[2] \in c.used
             /\ ~unused =>
                  /\ mfa'[p].res # OK
                  /\ account' = account]_vars

\* Two calls for one code have returned: one consumed the code, the other
\* was refused.
C37_Witness ==
  \E id \in CodeIds, p, q \in Procs :
     /\ account.wins[id] = 1
     /\ \E c \in account.codes : c.b = id[1] /\ id[2] \in c.used
     /\ mfa[p].pc = "idle" /\ mfa[p].code = id /\ mfa[p].res = OK
     /\ mfa[q].pc = "idle" /\ mfa[q].code = id
     /\ mfa[q].res = "not found or already used"

\* C38: whatever the interleaving of enable, disable and regenerate
\* requests, the user has recovery code rows only while MFA is enabled, and
\* never more than recoveryCodeCount of them.
C38_CodesWhileEnabled ==
  /\ account.codes # {} => account.enabled
  /\ recoveryCodeCount * Cardinality(account.codes) <= recoveryCodeCount

\* C39: while MFA is enabled, the stored secret is the one the enable
\* request verified with a valid TOTP code.
C39_SecretIsVerified ==
  account.enabled => account.secret = account.verified

\* A goroutine is between the two assignments of Login or of ClearToken.
Assigning == \E g \in Goroutines : client.go[g].pc \in {"token", "clearRawToken"}

\* C40: the agent client's parsed token and raw token are consistent, both
\* of the same login or both cleared, whenever no goroutine is between the
\* two assignments of Login or ClearToken; and a request sent while the
\* client holds a token it considers valid carries a bearer token that is
\* not empty.
C40_TokensConsistent ==
  /\ ~Assigning => client.token = client.rawToken
  /\ \A g \in Goroutines :
       (client.go[g].pc = "send" /\ ~HasTokenExpired) => client.go[g].bearer # 0

====
